---- MODULE Spec2Model ----
(***************************************************************************)
(* Model of the dice agent executor of aloha-python: executor start-up,    *)
(* request execution, the bounded tool-calling conversation loop, the      *)
(* parameter validator, the two tools and the fallback responder.          *)
(* Two executor implementations exist (server/ and agent/); the variable   *)
(* variant selects which one a behaviour follows.                          *)
(*                                                                         *)
(* Python strings that the code inspects or interpolates are modelled as   *)
(* sequences of one-character strings, so that substring tests, lower(),   *)
(* regular-expression matches, int() and str() are computed and not        *)
(* assumed.                                                                *)
(***************************************************************************)
EXTENDS Integers, Sequences, FiniteSets, TLC

(***************************************************************************)
(* Bounds of the model.                                                    *)
(***************************************************************************)
\* Largest number of tool calls the backend puts in one response.
MaxCallsPerTurn == 2
\* In the loop specification the first MaxRichTurns responses of an invocation
\* range over the whole repertoire (LoopResponses); the later ones, like every
\* response of the whole-executor specification, over BasicResponses.  The
\* loop treats a call the same way in every iteration.
MaxRichTurns == 1
\* random.randint(1, n) is enumerated in full up to this n; above it the
\* outcomes 1, 2, n-1 and n stand for the range.
MaxRollEnum == 3

\* is_prime is called directly for the numbers up to this one
MaxPrimeProbe == 10000

\* check_prime is called directly for the lists up to this length
MaxListLen == 3

\* the methods of the client are called directly at most this many times
\* before it is closed
MaxDirectCalls == 3

(***************************************************************************)
(* Characters and strings.                                                 *)
(***************************************************************************)
Digits == <<"0","1","2","3","4","5","6","7","8","9">>

IsDigit(c) == \E i \in 1..10 : Digits[i] = c

DigitVal(c) == (CHOOSE i \in 1..10 : Digits[i] = c) - 1

UpperCase == <<"A","B","C","D","E","F","G","H","I","J","K","L","M","N","O","P","Q","R","S","T","U","V","W","X","Y","Z">>

LowerCase == <<"a","b","c","d","e","f","g","h","i","j","k","l","m","n","o","p","q","r","s","t","u","v","w","x","y","z">>

IsUpper(c) == \E i \in 1..26 : UpperCase[i] = c

\* str.lower(), one character
LowerChar(c) == IF IsUpper(c) THEN LowerCase[CHOOSE i \in 1..26 : UpperCase[i] = c] ELSE c

\* str.lower()
Lower(s) == [i \in 1..Len(s) |-> LowerChar(s[i])]

\* \w of the re module (ASCII part): letters, digits, underscore
IsWordChar(c) == IsDigit(c) \/ IsUpper(c) \/ c = "_" \/ (\E i \in 1..26 : LowerCase[i] = c)

\* \s of the re module and the characters str.strip() removes
IsSpace(c) == c \in {" ", "\t", "\n", "\r"}

\* needle occurs in s at position i
MatchAt(s, needle, i) == /\ i >= 1
                         /\ i + Len(needle) - 1 <= Len(s)
                         /\ \A k \in 1..Len(needle) : s[i + k - 1] = needle[k]

\* Python's `needle in s`
Contains(s, needle) == \E i \in 1..(Len(s) + 1) : MatchAt(s, needle, i)

\* IsBlank without strip(): only the empty text
IsBlankEmptyOnly(s) == Len(s) = 0

\* s.strip() == ""
IsBlank(s) == \A i \in 1..Len(s) : IsSpace(s[i])

RECURSIVE NatToStr(_)
\* str(n) for n >= 0
NatToStr(n) == IF n < 10 THEN <<Digits[n + 1]>> ELSE NatToStr(n \div 10) \o <<Digits[(n % 10) + 1]>>

\* str(n) for an int
IntToStr(n) == IF n < 0 THEN <<"-">> \o NatToStr(0 - n) ELSE NatToStr(n)

RECURSIVE StrToNat(_)
\* int(s) for a string of decimal digits
StrToNat(s) == IF Len(s) = 0 THEN 0 ELSE 10 * StrToNat(SubSeq(s, 1, Len(s) - 1)) + DigitVal(s[Len(s)])

RECURSIVE Join(_, _)
\* sep.join(parts)
Join(parts, sep) == IF Len(parts) = 0 THEN << >> ELSE IF Len(parts) = 1 THEN parts[1] ELSE parts[1] \o sep \o Join(Tail(parts), sep)

(***************************************************************************)
(* Python values as they arrive from JSON: a tag t (the type) and a        *)
(* payload v.  A dict is a function from key strings to values.            *)
(***************************************************************************)
NoneV == [t |-> "NoneType"]

IntV(n) == [t |-> "int", v |-> n]

BoolV(b) == [t |-> "bool", v |-> b]

FloatV == [t |-> "float"]

StrV(s) == [t |-> "str", v |-> s]

ListV(l) == [t |-> "list", v |-> l]

DictV(d) == [t |-> "dict", v |-> d]

EmptyDict == << >>

\* type(x).__name__
TypeName(x) == CASE x.t = "NoneType" -> <<"N","o","n","e","T","y","p","e">>
                 [] x.t = "int" -> <<"i","n","t">>
                 [] x.t = "bool" -> <<"b","o","o","l">>
                 [] x.t = "float" -> <<"f","l","o","a","t">>
                 [] x.t = "str" -> <<"s","t","r">>
                 [] x.t = "list" -> <<"l","i","s","t">>
                 [] x.t = "dict" -> <<"d","i","c","t">>

\* isinstance(x, int): bool is a subclass of int
IsInstanceInt(x) == x.t \in {"int", "bool"}

\* the integer an int or bool compares as
AsInt(x) == IF x.t = "bool" THEN (IF x.v THEN 1 ELSE 0) ELSE x.v

\* str(x) of an int, bool or str, as an f-string formats it
PyStr(x) == CASE x.t = "int" -> IntToStr(x.v)
              [] x.t = "bool" -> (IF x.v THEN <<"T","r","u","e">> ELSE <<"F","a","l","s","e">>)
              [] x.t = "str" -> x.v
              [] x.t = "NoneType" -> <<"N","o","n","e">>

\* kwargs.get(key)
KwGet(kwargs, key) == IF key \in DOMAIN kwargs THEN kwargs[key] ELSE NoneV

(***************************************************************************)
(* Results of calls that may raise: exc is "none" for a normal return,     *)
(* else the exception type; text is str(exception); val the return value.  *)
(***************************************************************************)
Returned(val) == [exc |-> "none", text |-> << >>, val |-> val]

Raised(exc, text) == [exc |-> exc, text |-> text, val |-> NoneV]

(***************************************************************************)
(* Program constants and names.                                            *)
(***************************************************************************)
MaxSides == 1000000

MaxNumbers == 1000

max_iterations == 5

DefaultSides == 6

K_sides == <<"s","i","d","e","s">>

K_numbers == <<"n","u","m","b","e","r","s">>

N_roll_dice == <<"r","o","l","l","_","d","i","c","e">>

N_check_prime == <<"c","h","e","c","k","_","p","r","i","m","e">>

\* self.tools: the registered tool names
tools == {N_roll_dice, N_check_prime}

(***************************************************************************)
(* validate_tool_parameters                                                *)
(***************************************************************************)
\* the for loop over numbers, from element i on: the first element that is
\* not an int or is negative raises
ValidateNumbers(numbers, i) ==
    LET bad == {j \in i..Len(numbers) : ~IsInstanceInt(numbers[j]) \/ AsInt(numbers[j]) < 0} IN
    IF bad = {} THEN Returned(NoneV)
    ELSE LET num == numbers[CHOOSE j \in bad : \A k \in bad : j <= k] IN
         IF ~IsInstanceInt(num)
         THEN Raised("ValueError", <<"A","l","l"," ","n","u","m","b","e","r","s"," ","m","u","s","t"," ","b","e"," ","i","n","t","e","g","e","r","s",","," ","g","o","t"," ">> \o TypeName(num))
         ELSE Raised("ValueError", <<"A","l","l"," ","n","u","m","b","e","r","s"," ","m","u","s","t"," ","b","e"," ","n","o","n","-","n","e","g","a","t","i","v","e",","," ","g","o","t"," ">> \o PyStr(num))

ValidateRollDice(kwargs) ==
    LET sides == KwGet(kwargs, K_sides) IN
    IF sides.t = "NoneType"
    THEN Raised("ValueError", <<"r","o","l","l","_","d","i","c","e"," ","r","e","q","u","i","r","e","s"," ","'","s","i","d","e","s","'"," ","p","a","r","a","m","e","t","e","r">>)
    ELSE IF ~IsInstanceInt(sides)
    THEN Raised("ValueError", <<"'","s","i","d","e","s","'"," ","m","u","s","t"," ","b","e"," ","a","n"," ","i","n","t","e","g","e","r",","," ","g","o","t"," ">> \o TypeName(sides))
    ELSE IF AsInt(sides) <= 0
    THEN Raised("ValueError", <<"'","s","i","d","e","s","'"," ","m","u","s","t"," ","b","e"," ","p","o","s","i","t","i","v","e",","," ","g","o","t"," ">> \o PyStr(sides))
    ELSE IF AsInt(sides) > MaxSides
    THEN Raised("ValueError", <<"'","s","i","d","e","s","'"," ","m","u","s","t"," ","b","e"," ","<","="," ","1","0","0","0","0","0","0",","," ","g","o","t"," ">> \o PyStr(sides))
    ELSE Returned(NoneV)

ValidateCheckPrime(kwargs) ==
    LET numbers == KwGet(kwargs, K_numbers) IN
    IF numbers.t = "NoneType"
    THEN Raised("ValueError", <<"c","h","e","c","k","_","p","r","i","m","e"," ","r","e","q","u","i","r","e","s"," ","'","n","u","m","b","e","r","s","'"," ","p","a","r","a","m","e","t","e","r">>)
    ELSE IF numbers.t # "list"
    THEN Raised("ValueError", <<"'","n","u","m","b","e","r","s","'"," ","m","u","s","t"," ","b","e"," ","a"," ","l","i","s","t",","," ","g","o","t"," ">> \o TypeName(numbers))
    ELSE IF Len(numbers.v) = 0
    THEN Raised("ValueError", <<"'","n","u","m","b","e","r","s","'"," ","l","i","s","t"," ","c","a","n","n","o","t"," ","b","e"," ","e","m","p","t","y">>)
    ELSE IF Len(numbers.v) > MaxNumbers
    THEN Raised("ValueError", <<"'","n","u","m","b","e","r","s","'"," ","l","i","s","t"," ","t","o","o"," ","l","a","r","g","e"," ","(","m","a","x"," ","1","0","0","0",")",","," ","g","o","t"," ">> \o IntToStr(Len(numbers.v)))
    ELSE ValidateNumbers(numbers.v, 1)

validate_tool_parameters(tool_name, kwargs) ==
    IF tool_name = N_roll_dice THEN ValidateRollDice(kwargs)
    ELSE IF tool_name = N_check_prime THEN ValidateCheckPrime(kwargs)
    ELSE Returned(NoneV)

(***************************************************************************)
(* tools.py                                                                *)
(***************************************************************************)
RECURSIVE SqrtFrom(_, _)
\* the least r >= r0 with (r + 1)^2 > n
SqrtFrom(n, r0) == IF (r0 + 1) * (r0 + 1) > n THEN r0 ELSE SqrtFrom(n, r0 + 1)

\* ISqrt one too low: the loop of is_prime stops before the square root
ISqrtLow(n) == SqrtFrom(n, 0) - 1

\* int(n ** 0.5)
ISqrt(n) == SqrtFrom(n, 0)

is_prime(n) ==
    IF n <= 1 THEN FALSE
    ELSE IF n = 2 THEN TRUE
    ELSE IF n % 2 = 0 THEN FALSE
    ELSE \A i \in 3..ISqrt(n) : (i % 2 = 1) => (n % i # 0)

RECURSIVE PrimesOfDistinct(_)
\* PrimesOf that names a prime once: of equal elements only the last is kept
PrimesOfDistinct(numbers) ==
    IF Len(numbers) = 0 THEN << >>
    ELSE (IF is_prime(numbers[1]) /\ ~\E i \in 2..Len(numbers) : numbers[i] = numbers[1] THEN <<numbers[1]>> ELSE << >>)
         \o PrimesOfDistinct(Tail(numbers))

RECURSIVE PrimesOf(_)
\* [n for n in numbers if is_prime(n)]
PrimesOf(numbers) ==
    IF Len(numbers) = 0 THEN << >>
    ELSE (IF is_prime(numbers[1]) THEN <<numbers[1]>> ELSE << >>) \o PrimesOf(Tail(numbers))

\* check_prime on a list of ints
check_prime(numbers) ==
    LET primes == PrimesOf(numbers) IN
    IF Len(numbers) = 0 THEN <<"N","o"," ","n","u","m","b","e","r","s"," ","p","r","o","v","i","d","e","d"," ","t","o"," ","c","h","e","c","k",".">>
    ELSE IF Len(primes) = 0 THEN <<"N","o","n","e"," ","o","f"," ","t","h","e"," ","n","u","m","b","e","r","s"," ","a","r","e"," ","p","r","i","m","e",".">>
    ELSE Join([i \in 1..Len(primes) |-> IntToStr(primes[i])], <<","," ">>) \o <<" ","a","r","e"," ","p","r","i","m","e"," ","n","u","m","b","e","r","s",".">>

\* RandInt as random.randrange(a, b): the upper end is left out
RandIntExclusive(a, b) == IF b - a < MaxRollEnum THEN a..(b - 1) ELSE {a, a + 1, b - 1}

\* the outcomes of random.randint(a, b)
RandInt(a, b) == IF b - a < MaxRollEnum THEN a..b ELSE {a, a + 1, b - 1, b}

\* roll_dice(sides): every result the call can produce
roll_dice(sides) ==
    IF sides <= 0 THEN {Raised("ValueError", <<"D","i","c","e"," ","m","u","s","t"," ","h","a","v","e"," ","a","t"," ","l","e","a","s","t"," ","1"," ","s","i","d","e">>)}
    ELSE {Returned(IntV(r)) : r \in RandInt(1, sides)}

\* f(**kwargs) for a function whose only parameter is param: Python binds the
\* keyword arguments before the body runs and raises TypeError when they do
\* not fit.
BindError(fname, param, kwargs) ==
    IF \E k \in DOMAIN kwargs : k # param
    THEN Raised("TypeError", fname \o <<"(",")"," ","g","o","t"," ","a","n"," ","u","n","e","x","p","e","c","t","e","d"," ","k","e","y","w","o","r","d"," ","a","r","g","u","m","e","n","t"," ","'">> \o (CHOOSE k \in DOMAIN kwargs : k # param) \o <<"'">>)
    ELSE IF param \notin DOMAIN kwargs
    THEN Raised("TypeError", fname \o <<"(",")"," ","m","i","s","s","i","n","g"," ","1"," ","r","e","q","u","i","r","e","d"," ","p","o","s","i","t","i","o","n","a","l"," ","a","r","g","u","m","e","n","t",":"," ","'">> \o param \o <<"'">>)
    ELSE Returned(NoneV)

\* self.tools[tool_name](**tool_args): every outcome of the call
CallTool(tool_name, kwargs) ==
    IF tool_name = N_roll_dice
    THEN IF BindError(N_roll_dice, K_sides, kwargs).exc # "none"
         THEN {BindError(N_roll_dice, K_sides, kwargs)}
         ELSE roll_dice(AsInt(kwargs[K_sides]))
    ELSE IF BindError(N_check_prime, K_numbers, kwargs).exc # "none"
         THEN {BindError(N_check_prime, K_numbers, kwargs)}
         ELSE {Returned(StrV(check_prime([i \in 1..Len(kwargs[K_numbers].v) |-> AsInt(kwargs[K_numbers].v[i])])))}

(***************************************************************************)
(* json.loads, for JSON texts without backslash escapes and exponents:     *)
(* null, true, false, integers, decimals, strings, arrays and objects.     *)
(* A parse result is [ok, val, pos] (pos: the index after the value) or    *)
(* [ok |-> FALSE, msg, pos] (pos: the index the error is reported at).     *)
(***************************************************************************)
Parsed(val, pos) == [ok |-> TRUE, val |-> val, pos |-> pos, msg |-> << >>]

ParseFail(msg, pos) == [ok |-> FALSE, val |-> NoneV, pos |-> pos, msg |-> msg]

RECURSIVE SkipWs(_, _)
\* the first index from i on that holds no whitespace
SkipWs(s, i) == IF i <= Len(s) /\ IsSpace(s[i]) THEN SkipWs(s, i + 1) ELSE i

RECURSIVE DigitsEnd(_, _)
\* the first index from i on that holds no digit
DigitsEnd(s, i) == IF i <= Len(s) /\ IsDigit(s[i]) THEN DigitsEnd(s, i + 1) ELSE i

RECURSIVE QuoteAt(_, _)
\* the index of the next double quote from i on, 0 when there is none
QuoteAt(s, i) == IF i > Len(s) THEN 0 ELSE IF s[i] = "\"" THEN i ELSE QuoteAt(s, i + 1)

\* a JSON number starting at i (s[i] is "-" or a digit)
ParseNumber(s, i) ==
    LET neg == s[i] = "-"
        d0 == IF neg THEN i + 1 ELSE i
        d1 == IF d0 <= Len(s) /\ s[d0] = "0" THEN d0 + 1 ELSE DigitsEnd(s, d0)
        frac == d1 + 1 <= Len(s) /\ s[d1] = "." /\ IsDigit(s[d1 + 1])
        n == StrToNat(SubSeq(s, d0, d1 - 1))
    IN  IF d1 = d0 THEN ParseFail(<<"E","x","p","e","c","t","i","n","g"," ","v","a","l","u","e">>, i)
        ELSE IF frac THEN Parsed(FloatV, DigitsEnd(s, d1 + 1))
        ELSE Parsed(IntV(IF neg THEN 0 - n ELSE n), d1)

RECURSIVE ParseValue(_, _)
RECURSIVE ParseElems(_, _, _)
RECURSIVE ParseMembers(_, _, _)

\* the elements of an array from i on (acc: the elements read so far)
ParseElems(s, i, acc) ==
    LET e == ParseValue(s, i)
        j == SkipWs(s, e.pos)
    IN  IF ~e.ok THEN e
        ELSE IF j <= Len(s) /\ s[j] = "," THEN ParseElems(s, SkipWs(s, j + 1), Append(acc, e.val))
        ELSE IF j <= Len(s) /\ s[j] = "]" THEN Parsed(ListV(Append(acc, e.val)), j + 1)
        ELSE ParseFail(<<"E","x","p","e","c","t","i","n","g"," ","'",",","'"," ","d","e","l","i","m","i","t","e","r">>, j)

\* the members of an object from i on (acc: the members read so far)
ParseMembers(s, i, acc) ==
    LET q == QuoteAt(s, i + 1)
        key == SubSeq(s, i + 1, q - 1)
        c == SkipWs(s, q + 1)
        e == ParseValue(s, SkipWs(s, c + 1))
        j == SkipWs(s, e.pos)
        now == [k \in (DOMAIN acc) \cup {key} |-> IF k = key THEN e.val ELSE acc[k]]
    IN  IF i > Len(s) \/ s[i] # "\"" THEN ParseFail(<<"E","x","p","e","c","t","i","n","g"," ","p","r","o","p","e","r","t","y"," ","n","a","m","e"," ","e","n","c","l","o","s","e","d"," ","i","n"," ","d","o","u","b","l","e"," ","q","u","o","t","e","s">>, i)
        ELSE IF q = 0 THEN ParseFail(<<"U","n","t","e","r","m","i","n","a","t","e","d"," ","s","t","r","i","n","g"," ","s","t","a","r","t","i","n","g"," ","a","t">>, i)
        ELSE IF c > Len(s) \/ s[c] # ":" THEN ParseFail(<<"E","x","p","e","c","t","i","n","g"," ","'",":","'"," ","d","e","l","i","m","i","t","e","r">>, c)
        ELSE IF ~e.ok THEN e
        ELSE IF j <= Len(s) /\ s[j] = "," THEN ParseMembers(s, SkipWs(s, j + 1), now)
        ELSE IF j <= Len(s) /\ s[j] = "}" THEN Parsed(DictV(now), j + 1)
        ELSE ParseFail(<<"E","x","p","e","c","t","i","n","g"," ","'",",","'"," ","d","e","l","i","m","i","t","e","r">>, j)

\* one JSON value starting at i
ParseValue(s, i) ==
    IF i > Len(s) THEN ParseFail(<<"E","x","p","e","c","t","i","n","g"," ","v","a","l","u","e">>, i)
    ELSE IF s[i] = "\"" THEN (IF QuoteAt(s, i + 1) = 0
                               THEN ParseFail(<<"U","n","t","e","r","m","i","n","a","t","e","d"," ","s","t","r","i","n","g"," ","s","t","a","r","t","i","n","g"," ","a","t">>, i)
                               ELSE Parsed(StrV(SubSeq(s, i + 1, QuoteAt(s, i + 1) - 1)), QuoteAt(s, i + 1) + 1))
    ELSE IF s[i] = "{" THEN (IF SkipWs(s, i + 1) <= Len(s) /\ s[SkipWs(s, i + 1)] = "}"
                             THEN Parsed(DictV(EmptyDict), SkipWs(s, i + 1) + 1)
                             ELSE ParseMembers(s, SkipWs(s, i + 1), EmptyDict))
    ELSE IF s[i] = "[" THEN (IF SkipWs(s, i + 1) <= Len(s) /\ s[SkipWs(s, i + 1)] = "]"
                             THEN Parsed(ListV(<< >>), SkipWs(s, i + 1) + 1)
                             ELSE ParseElems(s, SkipWs(s, i + 1), << >>))
    ELSE IF MatchAt(s, <<"n","u","l","l">>, i) THEN Parsed(NoneV, i + 4)
    ELSE IF MatchAt(s, <<"t","r","u","e">>, i) THEN Parsed(BoolV(TRUE), i + 4)
    ELSE IF MatchAt(s, <<"f","a","l","s","e">>, i) THEN Parsed(BoolV(FALSE), i + 5)
    ELSE IF s[i] = "-" \/ IsDigit(s[i]) THEN ParseNumber(s, i)
    ELSE ParseFail(<<"E","x","p","e","c","t","i","n","g"," ","v","a","l","u","e">>, i)

\* str(JSONDecodeError): "<msg>: line 1 column <pos> (char <pos - 1>)"
JSONErrorText(msg, pos) ==
    msg \o <<":"," ","l","i","n","e"," ","1"," ","c","o","l","u","m","n"," ">> \o IntToStr(pos) \o <<" ","(","c","h","a","r"," ">> \o IntToStr(pos - 1) \o <<")">>

\* json.loads(s)
json_loads(s) ==
    LET r == ParseValue(s, SkipWs(s, 1))
        end == SkipWs(s, r.pos)
    IN  IF ~r.ok THEN Raised("JSONDecodeError", JSONErrorText(r.msg, r.pos))
        ELSE IF end <= Len(s) THEN Raised("JSONDecodeError", JSONErrorText(<<"E","x","t","r","a"," ","d","a","t","a">>, end))
        ELSE Returned(r.val)

(***************************************************************************)
(* Literals of the executor.                                               *)
(***************************************************************************)
\* the default of OLLAMA_BASE_URL
base_url == <<"h","t","t","p",":","/","/","l","o","c","a","l","h","o","s","t",":","1","1","4","3","4">>

\* the system instruction (its first sentence; the loop never inspects it)
system_message == <<"Y","o","u"," ","a","r","e"," ","a"," ","d","i","c","e"," ","r","o","l","l","i","n","g"," ","a","g","e","n","t">>

MaxIterationsText == <<"M","a","x","i","m","u","m"," ","i","t","e","r","a","t","i","o","n","s"," ","r","e","a","c","h","e","d"," ","w","h","i","l","e"," ","p","r","o","c","e","s","s","i","n","g"," ","r","e","q","u","e","s","t",".">>

ProcessedText == <<"I"," ","p","r","o","c","e","s","s","e","d"," ","y","o","u","r"," ","r","e","q","u","e","s","t",".">>

CapabilityText == <<"I"," ","c","a","n"," ","r","o","l","l"," ","d","i","c","e"," ","a","n","d"," ","c","h","e","c","k"," ","i","f"," ","n","u","m","b","e","r","s"," ","a","r","e"," ","p","r","i","m","e","."," ","W","h","a","t"," ","w","o","u","l","d"," ","y","o","u"," ","l","i","k","e"," ","m","e"," ","t","o"," ","d","o","?">>

NoNumbersText == <<"P","l","e","a","s","e"," ","p","r","o","v","i","d","e"," ","n","u","m","b","e","r","s"," ","t","o"," ","c","h","e","c","k"," ","f","o","r"," ","p","r","i","m","a","l","i","t","y",".">>

EmptyMessageText == <<"E","r","r","o","r",":"," ","E","m","p","t","y"," ","m","e","s","s","a","g","e"," ","r","e","c","e","i","v","e","d","."," ","P","l","e","a","s","e"," ","p","r","o","v","i","d","e"," ","a"," ","m","e","s","s","a","g","e",".">>

(***************************************************************************)
(* The inputs of the model: the environment at start-up, the requests and  *)
(* the answers of the chat backend.                                        *)
(***************************************************************************)
Variants == {"server", "agent"}

\* what `import ollama`, ollama.Client(...) and client.list() meet at start-up
OllamaStates == {"ok", "unreachable", "not_installed", "broken"}

T_Roll0 == <<"r","o","l","l"," ","a"," ","0","-","s","i","d","e","d"," ","d","i","c","e">>

T_Roll2 == <<"R","o","l","l"," ","a"," ","2","-","s","i","d","e","d"," ","d","i","c","e">>

T_RollBig == <<"r","o","l","l"," ","a"," ","2","0","0","0","0","0","0","-","s","i","d","e","d"," ","d","i","c","e">>

T_RollPlain == <<"R","O","L","L"," ","t","h","e"," ","d","i","c","e">>

T_Prime == <<"I","s"," ","1","7"," ","p","r","i","m","e","?">>

T_PrimeNone == <<"a","n","y"," ","p","r","i","m","e","s","?">>

T_Hello == <<"h","e","l","l","o">>

T_Blank == <<" ", " ">>

TextPartOf(s) == [kind |-> "text", text |-> s]

DataPart == [kind |-> "data", text |-> << >>]

\* context.message: None, or a message with its parts
NoMessage == [present |-> FALSE, parts |-> << >>]

MessageOf(parts) == [present |-> TRUE, parts |-> parts]

Texts == {T_Roll0, T_Roll2, T_RollBig, T_RollPlain, T_Prime, T_PrimeNone, T_Hello, T_Blank}

Requests ==
    {NoMessage, MessageOf(<< >>), MessageOf(<<DataPart>>), MessageOf(<<TextPartOf(<< >>)>>), MessageOf(<<TextPartOf(<<"R","o","l","l"," ">>), DataPart, TextPartOf(<<"d","i","c","e">>)>>)}
    \cup {MessageOf(<<TextPartOf(t)>>) : t \in Texts}

\* the one request of the specification of the loop
LoopRequests == {MessageOf(<<TextPartOf(T_Roll2)>>)}

N_flip_coin == <<"f","l","i","p","_","c","o","i","n">>

N_connection_test == <<"c","o","n","n","e","c","t","i","o","n","_","t","e","s","t">>

K_connection == <<"c","o","n","n","e","c","t","i","o","n">>

AbsentArgs == [t |-> "absent"]

ToolCall(name, arguments) == [function |-> [name |-> name, arguments |-> arguments]]

RollCall(n) == ToolCall(N_roll_dice, DictV(K_sides :> IntV(n)))

PrimeCall(l) == ToolCall(N_check_prime, DictV(K_numbers :> ListV(l)))

\* the tool calls the backend of the whole-executor specification asks for
BasicCalls == {RollCall(2), RollCall(0), ToolCall(N_flip_coin, DictV(EmptyDict))}

\* the tool calls the backend of the loop specification asks for
LoopCalls ==
    { RollCall(2), RollCall(0), RollCall(MaxSides + 1),
      ToolCall(N_roll_dice, DictV(K_sides :> StrV(<<"6">>))),
      ToolCall(N_roll_dice, AbsentArgs),
      ToolCall(N_roll_dice, NoneV),
      ToolCall(N_roll_dice, StrV(<<"{","\"","s","i","d","e","s","\"",":"," ","1","}">>)),
      ToolCall(N_roll_dice, DictV((K_sides :> IntV(1)) @@ (K_connection :> IntV(1)))),
      PrimeCall(<<IntV(2), IntV(4), IntV(3)>>),
      PrimeCall(<< >>),
      PrimeCall(<<IntV(-1)>>),
      ToolCall(N_check_prime, StrV(<<"{","b","a","d">>)),
      ToolCall(N_flip_coin, DictV(EmptyDict)),
      ToolCall(N_flip_coin, AbsentArgs),
      ToolCall(N_flip_coin, StrV(<<"{","\"","s","i","d","e","s","\"",":"," ","1","}">>)),
      ToolCall(N_flip_coin, ListV(<<IntV(1)>>)),
      ToolCall(N_flip_coin, StrV(<<"[","1","]">>)),
      ToolCall(N_connection_test, ListV(<< >>)) }

\* sequences over S of length lo..hi
SeqsOf(S, lo, hi) == UNION {[1..n -> S] : n \in lo..hi}

\* a response of client.chat that carries a message
ChatMessage(content, tool_calls) ==
    [kind |-> "message", message |-> [role |-> "assistant", content |-> content, tool_calls |-> tool_calls]]

\* client.chat raising
ChatError(exc, text) == [kind |-> "error", exc |-> exc, text |-> text]

FinalText == <<"Y","o","u"," ","r","o","l","l","e","d"," ","a"," ","2",".">>

\* responses without tool calls, and failures
PlainResponses ==
    { ChatMessage(StrV(FinalText), NoneV), ChatMessage(StrV(<< >>), ListV(<< >>)), ChatMessage(NoneV, NoneV),
      ChatError("ConnectError", <<"[","E","r","r","n","o"," ","1","1","1","]"," ","C","o","n","n","e","c","t","i","o","n"," ","r","e","f","u","s","e","d">>),
      ChatError("ResponseError", <<"R","E","F","U","S","E","D",":"," ","m","o","d","e","l"," ","i","s"," ","l","o","a","d","i","n","g">>),
      ChatError("ResponseError", <<"m","o","d","e","l"," ","'","q","w","e","n","2",".","5","'"," ","n","o","t"," ","f","o","u","n","d">>) }

BasicResponses == PlainResponses \cup {ChatMessage(StrV(<< >>), ListV(<<c>>)) : c \in BasicCalls}

\* the tool calls of the turns with several calls
PairCalls == {RollCall(1), RollCall(0), ToolCall(N_flip_coin, DictV(EmptyDict))}

LoopResponses ==
    PlainResponses
    \cup {ChatMessage(StrV(<< >>), ListV(<<c>>)) : c \in LoopCalls}
    \cup {ChatMessage(StrV(<< >>), ListV(calls)) : calls \in SeqsOf(PairCalls, 2, MaxCallsPerTurn)}

(***************************************************************************)
(* The state.                                                              *)
(***************************************************************************)
VARIABLES
    variant,        \* which executor implementation runs: "server" or "agent"
    ollama,         \* the environment at start-up (OllamaStates)
    llm_required,   \* OLLAMA_REQUIRED read as a boolean
    startup,        \* "new", "ready", or the exception type __init__ raised
    client,         \* self.client: "Client" or "None"
    pc,             \* where the request in flight stands
    message,        \* context.message
    message_text,   \* the text extracted from the message
    messages,       \* the conversation of the invocation of the loop
    iteration,      \* the loop's iteration counter
    tool_calls,     \* the tool calls of the turn being executed
    tc,             \* index in tool_calls of the call processed next
    result,         \* what _process_with_llm returned or raised
    events,         \* the status events put on the event queue, in order
    task_state,     \* state of the task of the request, "none" without a task
    raised,         \* what execute raised to its caller
    backend_calls,  \* number of client.chat calls made for the request
    responses,      \* what those calls returned or raised, in order
    tool_log,       \* the tool functions entered for the request, with arguments
    peer,           \* the loop of a second request that runs concurrently
    probe,          \* a direct call of a function: its name, input and outcomes
    current_task,   \* context.current_task when execute was entered: "Task" or "None"
    agent,          \* the DiceAgent of server/agent.py: its fields and servers
    aloha_client    \* the AlohaClient of a run of the host, and what was asked of it

vars == <<variant, ollama, llm_required, startup, client, pc, message, message_text, messages,
          iteration, tool_calls, tc, result, events, task_state, raised, backend_calls, responses,
          tool_log, peer, probe, current_task, agent, aloha_client>>

config == <<variant, ollama, llm_required>>

executor == <<startup, client>>

NoResult == [exc |-> "pending", text |-> << >>, val |-> NoneV]

NoRaise == [exc |-> "none", text |-> << >>, val |-> NoneV]

JSONRPCError(code, text) == [exc |-> "JSONRPCError", text |-> text, val |-> IntV(code)]

\* a status event with its message text; an artifact event is Event("artifact", text)
Event(state, text) == [state |-> state, text |-> text]

\* the state after a request's data is dropped; the executor is not touched
IdleRequest ==
    /\ pc = "idle"
    /\ message = NoMessage
    /\ message_text = << >>
    /\ messages = << >>
    /\ iteration = 0
    /\ tool_calls = << >>
    /\ tc = 0
    /\ result = NoResult
    /\ events = << >>
    /\ task_state = "none"
    /\ current_task = "None"
    /\ raised = NoRaise
    /\ backend_calls = 0
    /\ responses = << >>
    /\ tool_log = << >>

\* the second request when it is not running: it has no conversation
PeerIdle ==
    [pc |-> "idle", message_text |-> << >>, messages |-> << >>, iteration |-> 0, tool_calls |-> << >>,
     tc |-> 0, result |-> NoResult, backend_calls |-> 0, responses |-> << >>, tool_log |-> << >>]

\* no function is called directly; again is the outcome of a second call
\* with the same input
NoProbe == [fn |-> "none", input |-> NoneV, out |-> NoResult, again |-> NoResult]

Init ==
    /\ variant \in Variants
    /\ ollama \in OllamaStates
    /\ llm_required \in BOOLEAN
    /\ startup = "new"
    /\ client = "None"
    /\ IdleRequest
    /\ peer = PeerIdle
    /\ agent = [phase |-> "absent"]
    /\ aloha_client = [pc |-> "absent"]
    /\ probe = NoProbe

\* the loop specification: a reachable backend
InitLoop ==
    /\ variant \in Variants
    /\ ollama = "ok"
    /\ llm_required = FALSE
    /\ startup = "new"
    /\ client = "None"
    /\ IdleRequest
    /\ peer = PeerIdle
    /\ agent = [phase |-> "absent"]
    /\ aloha_client = [pc |-> "absent"]
    /\ probe = NoProbe

(***************************************************************************)
(* __init__ and _setup_llm                                                 *)
(***************************************************************************)
\* the exception the start-up environment raises inside _setup_llm's try
SetupFailure(env) ==
    CASE env = "not_installed" -> "ImportError"
      [] env = "broken" -> "Exception"
      [] env = "unreachable" -> "ConnectionFailure"
      [] env = "ok" -> "none"

\* server/: every failure is fatal only when OLLAMA_REQUIRED is set
setup_llm_server(env, required) ==
    IF SetupFailure(env) = "none" THEN [startup |-> "ready", client |-> "Client"]
    ELSE IF ~required THEN [startup |-> "ready", client |-> "None"]
    ELSE IF env = "unreachable" THEN [startup |-> "ConnectionError", client |-> "Client"]
    ELSE [startup |-> SetupFailure(env), client |-> "None"]

\* agent/: OLLAMA_REQUIRED is not read; every failure is raised
setup_llm_agent(env, required) ==
    IF SetupFailure(env) = "none" THEN [startup |-> "ready", client |-> "Client"]
    ELSE IF env = "unreachable" THEN [startup |-> "ConnectionError", client |-> "Client"]
    ELSE [startup |-> SetupFailure(env), client |-> "None"]

_setup_llm(v, env, required) ==
    IF v = "server" THEN setup_llm_server(env, required) ELSE setup_llm_agent(env, required)

Setup ==
    /\ startup = "new"
    /\ startup' = _setup_llm(variant, ollama, llm_required).startup
    /\ client' = _setup_llm(variant, ollama, llm_required).client
    /\ UNCHANGED <<config, current_task, agent, aloha_client, peer, probe, pc, message, message_text, messages, iteration, tool_calls, tc, result,
                   events, task_state, raised, backend_calls, responses, tool_log>>

(***************************************************************************)
(* validate_message and _extract_text_from_message                         *)
(***************************************************************************)
\* the text of the error validate_message raises, << >> when it passes
validate_message(m) ==
    IF ~m.present THEN <<"I","n","v","a","l","i","d"," ","m","e","s","s","a","g","e",":"," ","m","e","s","s","a","g","e"," ","i","s"," ","N","o","n","e">>
    ELSE IF Len(m.parts) = 0 THEN <<"I","n","v","a","l","i","d"," ","m","e","s","s","a","g","e",":"," ","n","o"," ","m","e","s","s","a","g","e"," ","p","a","r","t","s"," ","p","r","o","v","i","d","e","d">>
    ELSE IF ~\E i \in 1..Len(m.parts) : m.parts[i].kind = "text"
    THEN <<"I","n","v","a","l","i","d"," ","m","e","s","s","a","g","e",":"," ","n","o"," ","t","e","x","t"," ","c","o","n","t","e","n","t"," ","f","o","u","n","d"," ","i","n"," ","m","e","s","s","a","g","e"," ","p","a","r","t","s">>
    ELSE << >>

RECURSIVE JoinTextParts(_)
\* "".join of the texts of the text parts
JoinTextParts(parts) ==
    IF Len(parts) = 0 THEN << >>
    ELSE (IF parts[1].kind = "text" THEN parts[1].text ELSE << >>) \o JoinTextParts(Tail(parts))

_extract_text_from_message(m) == JoinTextParts(m.parts)

(***************************************************************************)
(* _fallback_processing                                                    *)
(***************************************************************************)
\* SidedAt for the pattern -?sided: no white space before sided
SidedAtHyphenOnly(s, e) ==
    \/ MatchAt(s, <<"s","i","d","e","d">>, e)
    \/ /\ e <= Len(s)
       /\ s[e] = "-"
       /\ MatchAt(s, <<"s","i","d","e","d">>, e + 1)

\* [-\s]?sided matches at index e
SidedAt(s, e) ==
    \/ MatchAt(s, <<"s","i","d","e","d">>, e)
    \/ /\ e <= Len(s)
       /\ s[e] = "-" \/ IsSpace(s[e])
       /\ MatchAt(s, <<"s","i","d","e","d">>, e + 1)

\* the start indexes at which (\d+)[-\s]?sided matches
SidedMatches(s) == {i \in 1..Len(s) : IsDigit(s[i]) /\ SidedAt(s, DigitsEnd(s, i))}

\* the least element of a non-empty set of integers
Least(S) == CHOOSE i \in S : \A j \in S : i <= j

\* int(match.group(1)) of re.search(r'(\d+)[-\s]?sided', s), for a text that matches
SidedNumber(s) == StrToNat(SubSeq(s, Least(SidedMatches(s)), DigitsEnd(s, Least(SidedMatches(s))) - 1))

\* NumberAt for the pattern \d+: any whole run of digits
NumberAtAnyRun(s, i) ==
    /\ IsDigit(s[i])
    /\ i = 1 \/ ~IsDigit(s[i - 1])

\* \b\d+\b matches the digits from i on: a whole run of digits with no word
\* character on either side
NumberAt(s, i) ==
    /\ IsDigit(s[i])
    /\ i = 1 \/ ~IsWordChar(s[i - 1])
    /\ DigitsEnd(s, i) > Len(s) \/ ~IsWordChar(s[DigitsEnd(s, i)])

RECURSIVE FindNumbers(_, _)
\* [int(n) for n in re.findall(r'\b\d+\b', s)], scanning from i
FindNumbers(s, i) ==
    IF i > Len(s) THEN << >>
    ELSE IF NumberAt(s, i)
    THEN <<StrToNat(SubSeq(s, i, DigitsEnd(s, i) - 1))>> \o FindNumbers(s, DigitsEnd(s, i))
    ELSE FindNumbers(s, i + 1)

\* one entry of the log of tool functions entered
LogEntry(tool_name, kwargs) == [tool |-> tool_name, kwargs |-> kwargs]

\* the dice branch: roll_dice(sides) and the sentence built from its result
FallbackRoll(sides) ==
    { [result |-> IF r.exc = "none"
                  THEN Returned(StrV(<<"I"," ","r","o","l","l","e","d"," ","a"," ">> \o IntToStr(sides) \o <<"-","s","i","d","e","d"," ","d","i","c","e"," ","a","n","d"," ","g","o","t",":"," ">> \o PyStr(r.val)))
                  ELSE r,
       log |-> <<LogEntry(N_roll_dice, K_sides :> IntV(sides))>>] : r \in roll_dice(sides) }

\* a responder that keeps state: its answer depends on whether it ran before
FallbackRemembering(s) ==
    IF probe.fn = "none"
    THEN {[result |-> Returned(StrV(CapabilityText)), log |-> << >>]}
    ELSE {[result |-> Returned(StrV(NoNumbersText)), log |-> << >>]}

\* every outcome of _fallback_processing(message_text): what it returns or
\* raises, and the tool functions it entered
_fallback_processing(s) ==
    LET message_lower == Lower(s)
        numbers == FindNumbers(s, 1)
    IN  IF Contains(message_lower, <<"r","o","l","l">>) /\ Contains(message_lower, <<"d","i","c","e">>)
        THEN IF SidedMatches(message_lower) # {}
             THEN FallbackRoll(SidedNumber(message_lower))
             ELSE FallbackRoll(DefaultSides)
        ELSE IF Contains(message_lower, <<"p","r","i","m","e">>)
        THEN IF Len(numbers) > 0
             THEN {[result |-> Returned(StrV(check_prime(numbers))),
                    log |-> <<LogEntry(N_check_prime, K_numbers :> ListV([i \in 1..Len(numbers) |-> IntV(numbers[i])]))>>]}
             ELSE {[result |-> Returned(StrV(NoNumbersText)), log |-> << >>]}
        ELSE {[result |-> Returned(StrV(CapabilityText)), log |-> << >>]}

(***************************************************************************)
(* _call_llm_with_tools: the steps of one iteration                        *)
(***************************************************************************)
\* Python truthiness of a value read from the response
Truthy(x) ==
    CASE x.t = "NoneType" -> FALSE
      [] x.t = "str" -> Len(x.v) > 0
      [] x.t = "list" -> Len(x.v) > 0
      [] OTHER -> TRUE

\* HandleException without .lower(): the wording is matched case-sensitively
HandleExceptionCaseSensitive(e) ==
    IF Contains(e.text, <<"c","o","n","n","e","c","t","i","o","n">>) \/ Contains(e.text, <<"r","e","f","u","s","e","d">>)
    THEN Raised("ConnectionError", <<"F","a","i","l","e","d"," ","t","o"," ","c","o","n","n","e","c","t"," ","t","o"," ","O","l","l","a","m","a"," ","a","t"," ">> \o base_url \o <<"."," ","P","l","e","a","s","e"," ","e","n","s","u","r","e"," ","O","l","l","a","m","a"," ","i","s"," ","r","u","n","n","i","n","g",".">>)
    ELSE e

\* HandleException that swallows the failure and returns its text
HandleExceptionSwallowed(e) == Returned(StrV(e.text))

\* the handler `except Exception as e` of the loop: connection wording makes
\* a ConnectionError, anything else is raised again as it is
HandleException(e) ==
    IF Contains(Lower(e.text), <<"c","o","n","n","e","c","t","i","o","n">>) \/ Contains(Lower(e.text), <<"r","e","f","u","s","e","d">>)
    THEN Raised("ConnectionError", <<"F","a","i","l","e","d"," ","t","o"," ","c","o","n","n","e","c","t"," ","t","o"," ","O","l","l","a","m","a"," ","a","t"," ">> \o base_url \o <<"."," ","P","l","e","a","s","e"," ","e","n","s","u","r","e"," ","O","l","l","a","m","a"," ","i","s"," ","r","u","n","n","i","n","g",".">>)
    ELSE e

\* FinalContent that returns the content as it is (`return content`)
FinalContentNoDefault(m) == IF m.content.t = "str" THEN m.content.v ELSE << >>

\* FinalContent that ignores the content of the message
FinalContentIgnored(m) == ProcessedText

\* `content or "I processed your request."` of a message without tool calls
FinalContent(m) == IF Truthy(m.content) THEN m.content.v ELSE ProcessedText

\* LoopHead without the bound (`while True`)
LoopHeadNoCap(it) == [pc |-> "awaiting_model", iteration |-> it + 1, result |-> NoResult, chat |-> 1]

\* LoopHead with the bound off by one (`iteration <= max_iterations`)
LoopHeadOffByOne(it) ==
    IF it <= max_iterations
    THEN [pc |-> "awaiting_model", iteration |-> it + 1, result |-> NoResult, chat |-> 1]
    ELSE [pc |-> "returned", iteration |-> it, result |-> Returned(StrV(MaxIterationsText)), chat |-> 0]

\* `while iteration < max_iterations: iteration += 1` followed by the call of
\* client.chat (chat: the number of calls issued), and the return after the loop
LoopHead(it) ==
    IF it < max_iterations
    THEN [pc |-> "awaiting_model", iteration |-> it + 1, result |-> NoResult, chat |-> 1]
    ELSE [pc |-> "returned", iteration |-> it, result |-> Returned(StrV(MaxIterationsText)), chat |-> 0]

\* the outcome of processing one tool call: exc/text as in Raised, the content
\* of the tool-role message to append, and the tool functions entered
CallOutcome(r, observation, log) == [exc |-> r.exc, text |-> r.text, observation |-> observation, log |-> log]

\* Dispatch that turns a validation failure into an observation and goes on
DispatchValidationObserved(tool_name, kwargs) ==
    IF tool_name \in tools
    THEN IF validate_tool_parameters(tool_name, kwargs).exc # "none"
         THEN {CallOutcome(Returned(NoneV), <<"E","r","r","o","r",":"," ">> \o validate_tool_parameters(tool_name, kwargs).text, << >>)}
         ELSE {CallOutcome(r, IF r.exc = "none" THEN PyStr(r.val) ELSE << >>,
                           IF r.exc = "TypeError" THEN << >> ELSE <<LogEntry(tool_name, kwargs)>>)
                 : r \in CallTool(tool_name, kwargs)}
    ELSE {CallOutcome(Returned(NoneV), <<"E","r","r","o","r",":"," ","U","n","k","n","o","w","n"," ","t","o","o","l"," ","'">> \o tool_name \o <<"'">>, << >>)}

\* Dispatch that looks the tool up without the membership test
\* (self.tools[tool_name] raises KeyError for a name that is not registered)
DispatchUnknownRaises(tool_name, kwargs) ==
    IF tool_name \in tools
    THEN IF validate_tool_parameters(tool_name, kwargs).exc # "none"
         THEN {CallOutcome(validate_tool_parameters(tool_name, kwargs), << >>, << >>)}
         ELSE {CallOutcome(r, IF r.exc = "none" THEN PyStr(r.val) ELSE << >>,
                           IF r.exc = "TypeError" THEN << >> ELSE <<LogEntry(tool_name, kwargs)>>)
                 : r \in CallTool(tool_name, kwargs)}
    ELSE {CallOutcome(Raised("KeyError", <<"'">> \o tool_name \o <<"'">>), << >>, << >>)}

\* tool_name in self.tools, validation, execution; or the unknown-tool message
Dispatch(tool_name, kwargs) ==
    IF tool_name \in tools
    THEN IF validate_tool_parameters(tool_name, kwargs).exc # "none"
         THEN {CallOutcome(validate_tool_parameters(tool_name, kwargs), << >>, << >>)}
         ELSE {CallOutcome(r, IF r.exc = "none" THEN PyStr(r.val) ELSE << >>,
                           IF r.exc = "TypeError" THEN << >> ELSE <<LogEntry(tool_name, kwargs)>>)
                 : r \in CallTool(tool_name, kwargs)}
    ELSE {CallOutcome(Returned(NoneV), <<"E","r","r","o","r",":"," ","U","n","k","n","o","w","n"," ","t","o","o","l"," ","'">> \o tool_name \o <<"'">>, << >>)}

\* function.get('arguments', {})
RawArguments(call) == IF call.function.arguments.t = "absent" THEN DictV(EmptyDict) ELSE call.function.arguments

\* server/: arguments given as a string are JSON-decoded, None becomes {},
\* anything but a dict is refused; then the call is dispatched
ProcessCallServer(call) ==
    LET tool_name == call.function.name
        raw == RawArguments(call)
        decoded == IF raw.t = "str" THEN json_loads(raw.v) ELSE Returned(raw)
        tool_args == IF decoded.val.t = "NoneType" THEN DictV(EmptyDict) ELSE decoded.val
    IN  IF decoded.exc # "none" THEN {CallOutcome(decoded, << >>, << >>)}
        ELSE IF tool_args.t # "dict"
        THEN {CallOutcome(Raised("ValueError", <<"T","o","o","l"," ","a","r","g","u","m","e","n","t","s"," ","f","o","r"," ">> \o tool_name \o <<" ","m","u","s","t"," ","b","e"," ","a","n"," ","o","b","j","e","c","t">>), << >>, << >>)}
        ELSE Dispatch(tool_name, tool_args.v)

\* agent/ with a dispatch that reports a validation failure to the backend
ProcessCallAgentLenient(call) ==
    LET tool_name == call.function.name
        tool_args == RawArguments(call)
    IN  IF tool_name \in tools /\ tool_args.t # "dict"
        THEN {CallOutcome(Raised("TypeError", <<"v","a","l","i","d","a","t","e","_","t","o","o","l","_","p","a","r","a","m","e","t","e","r","s","(",")"," ","a","r","g","u","m","e","n","t"," ","a","f","t","e","r"," ","*","*"," ","m","u","s","t"," ","b","e"," ","a"," ","m","a","p","p","i","n","g",","," ","n","o","t"," ">> \o TypeName(tool_args)), << >>, << >>)}
        ELSE DispatchValidationObserved(tool_name, IF tool_args.t = "dict" THEN tool_args.v ELSE EmptyDict)

\* agent/: the arguments are passed on as they are; **tool_args of a
\* registered tool raises TypeError when they are no mapping
ProcessCallAgent(call) ==
    LET tool_name == call.function.name
        tool_args == RawArguments(call)
    IN  IF tool_name \in tools /\ tool_args.t # "dict"
        THEN {CallOutcome(Raised("TypeError", <<"v","a","l","i","d","a","t","e","_","t","o","o","l","_","p","a","r","a","m","e","t","e","r","s","(",")"," ","a","r","g","u","m","e","n","t"," ","a","f","t","e","r"," ","*","*"," ","m","u","s","t"," ","b","e"," ","a"," ","m","a","p","p","i","n","g",","," ","n","o","t"," ">> \o TypeName(tool_args)), << >>, << >>)}
        ELSE Dispatch(tool_name, IF tool_args.t = "dict" THEN tool_args.v ELSE EmptyDict)

\* the call taken last first
CurrentCallReversed(calls, i) == calls[Len(calls) + 1 - i]

\* `for tool_call in tool_calls`: the call of the i-th pass
CurrentCall(calls, i) == calls[i]

ProcessCall(v, call) == IF v = "server" THEN ProcessCallServer(call) ELSE ProcessCallAgent(call)

RECURSIVE AssistantTurns(_)
\* the number of assistant messages of the conversation: the responses with
\* tool calls received so far
AssistantTurns(msgs) ==
    IF Len(msgs) = 0 THEN 0
    ELSE (IF msgs[1].role = "assistant" THEN 1 ELSE 0) + AssistantTurns(Tail(msgs))

(***************************************************************************)
(* execute, up to the call of _process_with_llm                            *)
(***************************************************************************)
\* FailedEvents that reports the text without failing the task
FailedEventsSilent(v, text) == <<Event("artifact", text)>>

\* the events of a failure: server/ puts the text in the failed status,
\* agent/ adds it as an artifact and then fails the task
FailedEvents(v, text) ==
    IF v = "server" THEN <<Event("failed", text)>> ELSE <<Event("artifact", text), Event("failed", << >>)>>

CompletedEvents(v, text) ==
    IF v = "server" THEN <<Event("completed", text)>> ELSE <<Event("artifact", text), Event("completed", << >>)>>

\* StartEvents that submits whether or not the context has a task
StartEventsAlwaysSubmit(has_task) == <<Event("submitted", << >>), Event("working", << >>)>>

\* submit() when the context has no task, then start_work()
StartEvents(has_task) == (IF has_task THEN << >> ELSE <<Event("submitted", << >>)>>) \o <<Event("working", << >>)>>

\* execute is entered with a request; loop selects the request of the loop
\* specification
ExecuteStart(loop) ==
    /\ startup = "ready"
    /\ pc = "idle"
    /\ \E m \in (IF loop THEN LoopRequests ELSE Requests), has_task \in BOOLEAN :
        /\ message' = m
        /\ current_task' = IF has_task THEN "Task" ELSE "None"
        /\ IF validate_message(m) # << >>
           THEN /\ events' = FailedEvents(variant, <<"V","a","l","i","d","a","t","i","o","n"," ","e","r","r","o","r",":"," ">> \o validate_message(m))
                /\ task_state' = "failed"
                /\ raised' = IF variant = "server" THEN NoRaise ELSE JSONRPCError(-32602, validate_message(m))
                /\ message_text' = << >>
                /\ pc' = "finished"
           ELSE IF IsBlank(_extract_text_from_message(m))
           THEN /\ events' = StartEvents(has_task) \o FailedEvents(variant, EmptyMessageText)
                /\ task_state' = "failed"
                /\ raised' = IF variant = "server" THEN NoRaise ELSE JSONRPCError(-32602, <<"E","m","p","t","y"," ","m","e","s","s","a","g","e"," ","t","e","x","t">>)
                /\ message_text' = _extract_text_from_message(m)
                /\ pc' = "finished"
           ELSE /\ events' = StartEvents(has_task)
                /\ task_state' = "working"
                /\ raised' = NoRaise
                /\ message_text' = _extract_text_from_message(m)
                /\ pc' = "process"
    /\ UNCHANGED <<config, agent, aloha_client, peer, probe, executor, messages, iteration, tool_calls, tc, result, backend_calls, responses,
                   tool_log>>

(***************************************************************************)
(* _process_with_llm: the fallback responder without a client, else the    *)
(* fresh conversation and the entry of the loop                            *)
(***************************************************************************)
\* SeedConversation without the system instruction
SeedWithoutSystem(text) == <<[role |-> "user", content |-> text]>>

\* messages = [system, user]: a new list, local to the invocation
SeedConversation(text) ==
    <<[role |-> "system", content |-> system_message], [role |-> "user", content |-> text]>>

ProcessFallback ==
    /\ pc = "process"
    /\ client = "None"
    /\ \E o \in _fallback_processing(message_text) :
        /\ result' = o.result
        /\ tool_log' = tool_log \o o.log
    /\ pc' = "returned"
    /\ UNCHANGED <<config, current_task, agent, aloha_client, peer, probe, executor, message, message_text, messages, iteration, tool_calls, tc,
                   events, task_state, raised, backend_calls, responses>>

ProcessWithLLM ==
    /\ pc = "process"
    /\ client # "None"
    /\ messages' = SeedConversation(message_text)
    /\ pc' = LoopHead(0).pc
    /\ iteration' = LoopHead(0).iteration
    /\ result' = LoopHead(0).result
    /\ backend_calls' = backend_calls + LoopHead(0).chat
    /\ UNCHANGED <<config, current_task, agent, aloha_client, peer, probe, executor, message, message_text, tool_calls, tc,
                   events, task_state, raised, responses, tool_log>>

(***************************************************************************)
(* _call_llm_with_tools                                                    *)
(***************************************************************************)
\* the await of client.chat (issued at the head of the loop) ends: with a
\* failure, with a message that asks for tools, or with a final message; loop
\* selects the repertoire of the loop specification for the first turns
CallBackend(loop) ==
    /\ pc = "awaiting_model"
    /\ \E resp \in (IF loop /\ AssistantTurns(messages) < MaxRichTurns THEN LoopResponses ELSE BasicResponses) :
        /\ responses' = Append(responses, resp)
        /\ IF resp.kind = "error"
           THEN /\ result' = HandleException(Raised(resp.exc, resp.text))
                /\ pc' = "returned"
                /\ UNCHANGED <<messages, tool_calls, tc>>
           ELSE IF Truthy(resp.message.tool_calls)
           THEN /\ messages' = Append(messages, resp.message)
                /\ tool_calls' = resp.message.tool_calls.v
                /\ tc' = 1
                /\ pc' = "executing_tools"
                /\ UNCHANGED result
           ELSE /\ result' = Returned(StrV(FinalContent(resp.message)))
                /\ pc' = "returned"
                /\ UNCHANGED <<messages, tool_calls, tc>>
    /\ UNCHANGED <<config, current_task, agent, aloha_client, peer, probe, executor, message, message_text, iteration, events, task_state, raised,
                   backend_calls, tool_log>>

\* the body of `for tool_call in tool_calls` for the call at tc; after the
\* last call of the turn the loop continues at its head
ProcessToolCall ==
    /\ pc = "executing_tools"
    /\ \E o \in ProcessCall(variant, CurrentCall(tool_calls, tc)) :
        /\ tool_log' = tool_log \o o.log
        /\ IF o.exc # "none"
           THEN /\ result' = HandleException(Raised(o.exc, o.text))
                /\ pc' = "returned"
                /\ UNCHANGED <<messages, iteration, tc, backend_calls>>
           ELSE /\ messages' = Append(messages, [role |-> "tool", content |-> o.observation])
                /\ IF tc < Len(tool_calls)
                   THEN /\ tc' = tc + 1
                        /\ UNCHANGED <<pc, iteration, result, backend_calls>>
                   ELSE /\ tc' = tc
                        /\ pc' = LoopHead(iteration).pc
                        /\ iteration' = LoopHead(iteration).iteration
                        /\ result' = LoopHead(iteration).result
                        /\ backend_calls' = backend_calls + LoopHead(iteration).chat
    /\ UNCHANGED <<config, current_task, agent, aloha_client, peer, probe, executor, message, message_text, tool_calls, events, task_state, raised, responses>>

(***************************************************************************)
(* execute, after _process_with_llm returned or raised                     *)
(***************************************************************************)
\* `except ValueError` also catches json.JSONDecodeError, a subclass
IsValueError(exc) == exc \in {"ValueError", "JSONDecodeError"}

ExecuteFinish ==
    /\ pc = "returned"
    /\ IF result.exc = "none"
       THEN /\ events' = events \o CompletedEvents(variant, result.val.v)
            /\ task_state' = "completed"
            /\ raised' = NoRaise
       ELSE IF IsValueError(result.exc)
       THEN /\ events' = events \o FailedEvents(variant, <<"I","n","v","a","l","i","d"," ","r","e","q","u","e","s","t",":"," ">> \o result.text)
            /\ task_state' = "failed"
            /\ raised' = IF variant = "server" THEN NoRaise ELSE JSONRPCError(-32602, result.text)
       ELSE /\ events' = events \o FailedEvents(variant, <<"E","r","r","o","r"," ","p","r","o","c","e","s","s","i","n","g"," ","y","o","u","r"," ","r","e","q","u","e","s","t",":"," ">> \o result.text)
            /\ task_state' = "failed"
            /\ raised' = IF variant = "server" THEN NoRaise
                         ELSE JSONRPCError(-32603, <<"L","L","M"," ","p","r","o","c","e","s","s","i","n","g"," ","f","a","i","l","e","d",":"," ">> \o result.text)
    /\ pc' = "finished"
    /\ UNCHANGED <<config, current_task, agent, aloha_client, peer, probe, executor, message, message_text, messages, iteration, tool_calls, tc, result,
                   backend_calls, responses, tool_log>>

(***************************************************************************)
(* cancel                                                                  *)
(***************************************************************************)
\* the points at which execute is suspended and another coroutine can run:
\* the awaits of the task updater before and after _process_with_llm, and in
\* server/ the await of asyncio.to_thread(self.client.chat, ...); agent/ calls
\* self.client.chat without awaiting it
Suspended ==
    \/ pc \in {"process", "returned"}
    \/ variant = "server" /\ pc = "awaiting_model"

\* cancel() without the check of a completed task
CancelUnchecked ==
    /\ startup = "ready"
    /\ Suspended \/ pc \in {"idle", "finished"}
    /\ IF task_state \in {"none", "canceled", "failed"}
       THEN UNCHANGED <<events, task_state>>
       ELSE /\ events' = Append(events, Event("canceled", << >>))
            /\ task_state' = "canceled"
    /\ UNCHANGED <<config, current_task, agent, aloha_client, peer, probe, executor, pc, message, message_text, messages, iteration, tool_calls, tc, result,
                   raised, backend_calls, responses, tool_log>>

\* cancel() for the task of the request, called while execute is suspended,
\* before it started or after it finished: it returns (agent/: raises to
\* its own caller) without an event when the context has no task or the
\* task is canceled, completed or failed already, else the updater emits a
\* canceled status.  Nothing the loop reads is written.
Cancel ==
    /\ startup = "ready"
    /\ Suspended \/ pc \in {"idle", "finished"}
    /\ IF task_state \in {"none", "canceled", "completed", "failed"}
       THEN UNCHANGED <<events, task_state>>
       ELSE /\ events' = Append(events, Event("canceled", << >>))
            /\ task_state' = "canceled"
    /\ UNCHANGED <<config, current_task, agent, aloha_client, peer, probe, executor, pc, message, message_text, messages, iteration, tool_calls, tc, result,
                   raised, backend_calls, responses, tool_log>>

(***************************************************************************)
(* The request is over: its context, conversation and event queue are      *)
(* dropped; the executor serves the next request.                          *)
(***************************************************************************)
NextRequest ==
    /\ pc = "finished"
    /\ pc' = "idle"
    /\ message' = NoMessage
    /\ message_text' = << >>
    /\ messages' = << >>
    /\ iteration' = 0
    /\ tool_calls' = << >>
    /\ tc' = 0
    /\ result' = NoResult
    /\ events' = << >>
    /\ task_state' = "none"
    /\ current_task' = "None"
    /\ raised' = NoRaise
    /\ backend_calls' = 0
    /\ responses' = << >>
    /\ tool_log' = << >>
    /\ UNCHANGED <<config, agent, aloha_client, peer, probe, executor>>

Next ==
    \/ Setup
    \/ ExecuteStart(FALSE)
    \/ ProcessFallback
    \/ ProcessWithLLM
    \/ CallBackend(FALSE)
    \/ ProcessToolCall
    \/ ExecuteFinish
    \/ Cancel
    \/ NextRequest

Spec == Init /\ [][Next]_vars

NextLoop ==
    \/ Setup
    \/ ExecuteStart(TRUE)
    \/ ProcessWithLLM
    \/ CallBackend(TRUE)
    \/ ProcessToolCall
    \/ ExecuteFinish
    \/ NextRequest

SpecLoop == InitLoop /\ [][NextLoop]_vars

\* the loop specification with progress: a call of client.chat that was
\* issued returns or raises (weak fairness of CallBackend), and the body of
\* the for loop over the tool calls, straight-line code, runs on: the loop
\* does not stay at a tool call forever.  ProcessToolCall is enabled in
\* every state with pc = "executing_tools", so the last conjunct is
\* WF_vars(ProcessToolCall) written without ENABLED.
SpecLoopFair ==
    /\ SpecLoop
    /\ WF_vars(CallBackend(TRUE))
    /\ []<>(pc # "executing_tools") \/ []<><<ProcessToolCall>>_vars
(***************************************************************************)
(* Two requests in flight.  execute is a coroutine and the executor object *)
(* is shared by all requests; `messages`, `iteration`, `tool_calls` are    *)
(* locals of _process_with_llm and _call_llm_with_tools, so every          *)
(* invocation has its own.  The loop of the second request is kept in the  *)
(* record peer and advances by the same steps, written here as functions   *)
(* of the locals.  The steps of the two loops interleave freely, which is  *)
(* finer than the event loop allows (it switches coroutines at awaits      *)
(* only) and so includes every schedule it can produce.                    *)
(***************************************************************************)
\* EnterLoop with the conversation kept in one buffer that all invocations
\* extend (as if it were an attribute of the executor)
EnterLoopSharedBuffer(text) ==
    [PeerIdle EXCEPT !.message_text = text,
                     !.messages = messages \o SeedConversation(text),
                     !.pc = LoopHead(0).pc,
                     !.iteration = LoopHead(0).iteration,
                     !.result = LoopHead(0).result,
                     !.backend_calls = LoopHead(0).chat]

\* the locals of an invocation of _process_with_llm for a text, at the head
\* of the loop
EnterLoop(text) ==
    [PeerIdle EXCEPT !.message_text = text,
                     !.messages = SeedConversation(text),
                     !.pc = LoopHead(0).pc,
                     !.iteration = LoopHead(0).iteration,
                     !.result = LoopHead(0).result,
                     !.backend_calls = LoopHead(0).chat]

\* the locals after client.chat returned or raised resp
OnResponse(st, resp) ==
    LET got == [st EXCEPT !.responses = Append(st.responses, resp)] IN
    IF resp.kind = "error"
    THEN [got EXCEPT !.result = HandleException(Raised(resp.exc, resp.text)), !.pc = "returned"]
    ELSE IF Truthy(resp.message.tool_calls)
    THEN [got EXCEPT !.messages = Append(st.messages, resp.message),
                     !.tool_calls = resp.message.tool_calls.v,
                     !.tc = 1,
                     !.pc = "executing_tools"]
    ELSE [got EXCEPT !.result = Returned(StrV(FinalContent(resp.message))), !.pc = "returned"]

\* the locals after the call at tc was processed with outcome o
AfterCall(st, o) ==
    LET logged == [st EXCEPT !.tool_log = st.tool_log \o o.log] IN
    IF o.exc # "none"
    THEN [logged EXCEPT !.result = HandleException(Raised(o.exc, o.text)), !.pc = "returned"]
    ELSE LET answered == [logged EXCEPT !.messages = Append(st.messages, [role |-> "tool", content |-> o.observation])] IN
         IF st.tc < Len(st.tool_calls)
         THEN [answered EXCEPT !.tc = st.tc + 1]
         ELSE [answered EXCEPT !.pc = LoopHead(st.iteration).pc,
                               !.iteration = LoopHead(st.iteration).iteration,
                               !.result = LoopHead(st.iteration).result,
                               !.backend_calls = st.backend_calls + LoopHead(st.iteration).chat]

\* the locals the processing of the call at tc can lead to
OnCall(v, st) == {AfterCall(st, o) : o \in ProcessCall(v, CurrentCall(st.tool_calls, st.tc))}

\* the texts of the second request
PeerTexts == {T_Prime}

\* what the backend answers the second request
PeerResponses ==
    { ChatMessage(StrV(FinalText), NoneV),
      ChatMessage(StrV(<< >>), ListV(<<RollCall(1), PrimeCall(<<IntV(17)>>)>>)),
      ChatError("ConnectError", <<"[","E","r","r","n","o"," ","1","1","1","]"," ","C","o","n","n","e","c","t","i","o","n"," ","r","e","f","u","s","e","d">>) }

\* _process_with_llm of the second request starts its loop
PeerStart ==
    /\ startup = "ready"
    /\ client # "None"
    /\ peer.pc = "idle"
    /\ \E text \in PeerTexts : peer' = EnterLoop(text)
    /\ UNCHANGED <<config, current_task, agent, aloha_client, executor, probe, pc, message, message_text, messages, iteration, tool_calls, tc,
                   result, events, task_state, raised, backend_calls, responses, tool_log>>

\* client.chat of the second request ends
PeerCallBackend ==
    /\ peer.pc = "awaiting_model"
    /\ \E resp \in PeerResponses : peer' = OnResponse(peer, resp)
    /\ UNCHANGED <<config, current_task, agent, aloha_client, executor, probe, pc, message, message_text, messages, iteration, tool_calls, tc,
                   result, events, task_state, raised, backend_calls, responses, tool_log>>

\* the second request processes the tool call at its tc
PeerProcessToolCall ==
    /\ peer.pc = "executing_tools"
    /\ \E st \in OnCall(variant, peer) : peer' = st
    /\ UNCHANGED <<config, current_task, agent, aloha_client, executor, probe, pc, message, message_text, messages, iteration, tool_calls, tc,
                   result, events, task_state, raised, backend_calls, responses, tool_log>>

\* the loop of the second request returned or raised: its locals are gone
PeerReturn ==
    /\ peer.pc = "returned"
    /\ peer' = PeerIdle
    /\ UNCHANGED <<config, current_task, agent, aloha_client, executor, probe, pc, message, message_text, messages, iteration, tool_calls, tc,
                   result, events, task_state, raised, backend_calls, responses, tool_log>>

NextConcurrent ==
    \/ Setup
    \/ ExecuteStart(TRUE)
    \/ ProcessWithLLM
    \/ CallBackend(FALSE)
    \/ ProcessToolCall
    \/ ExecuteFinish
    \/ NextRequest
    \/ PeerStart
    \/ PeerCallBackend
    \/ PeerProcessToolCall
    \/ PeerReturn

SpecConcurrent == InitLoop /\ [][NextConcurrent]_vars


(***************************************************************************)
(* Direct calls of validate_tool_parameters and _fallback_processing: the  *)
(* initial state draws one input, a step applies the function to it.       *)
(***************************************************************************)
\* an input of validate_tool_parameters(tool_name, **kwargs)
ValidationCase(tool_name, kwargs) == [kind |-> "validate", tool |-> tool_name, kwargs |-> kwargs, text |-> << >>]

\* an input of _fallback_processing(message_text)
TextCase(text) == [kind |-> "fallback", tool |-> << >>, kwargs |-> EmptyDict, text |-> text]

\* values given for sides: JSON null, integers around the limits, and values
\* of every other JSON type
SidesValues ==
    { NoneV, IntV(-1), IntV(0), IntV(1), IntV(6), IntV(MaxSides - 1), IntV(MaxSides), IntV(MaxSides + 1),
      StrV(<<"6">>), FloatV, BoolV(TRUE), BoolV(FALSE), ListV(<<IntV(6)>>), DictV(EmptyDict) }

\* values given for numbers
NumbersValues ==
    { NoneV, ListV(<< >>), ListV(<<IntV(-1)>>), ListV(<<IntV(1), IntV(2), IntV(3)>>), ListV(<<IntV(0)>>),
      ListV([i \in 1..MaxNumbers |-> IntV(1)]), ListV([i \in 1..(MaxNumbers + 1) |-> IntV(1)]), ListV(<<IntV(1), IntV(-1)>>),
      ListV(<<IntV(1), StrV(<<"2">>)>>), ListV(<<FloatV>>), ListV(<<NoneV>>), ListV(<<BoolV(TRUE)>>),
      ListV(<<IntV(2), BoolV(FALSE)>>), IntV(5), StrV(<<"1","7">>), BoolV(TRUE), DictV(EmptyDict) }

ValidationCases ==
    {ValidationCase(N_roll_dice, K_sides :> x) : x \in SidesValues}
    \cup {ValidationCase(N_check_prime, K_numbers :> x) : x \in NumbersValues}
    \cup {ValidationCase(n, EmptyDict) : n \in {N_roll_dice, N_check_prime, N_flip_coin}}
    \cup {ValidationCase(N_roll_dice, K_numbers :> ListV(<<IntV(1)>>)), ValidationCase(N_check_prime, K_sides :> IntV(6))}

FallbackTexts ==
    Texts
    \cup { <<"R","o","l","l"," ","a"," ","2","0","-","s","i","d","e","d"," ","d","i","c","e">>, <<"r","o","l","l"," ","a"," ","4"," ","s","i","d","e","d"," ","d","i","c","e">>, <<"r","o","l","l"," ","3","s","i","d","e","d"," ","d","i","c","e">>, <<"r","o","l","l"," ","2","-","s","i","d","e","d"," ","o","r"," ","3","-","s","i","d","e","d"," ","d","i","c","e">>, <<"d","i","c","e"," ","r","o","l","l"," ","d","2","0">>,
           <<"R","o","l","l"," ","d","i","c","e",":"," ","i","s"," ","7"," ","p","r","i","m","e","?">>, <<"r","o","l","l","i","n","g"," ","3","-","s","i","d","e","d"," ","d","i","c","e","s",","," ","p","r","i","m","e">>, <<"a"," ","5","-","s","i","d","e","d"," ","d","i","c","e">>, <<"r","o","l","l"," ","7">>, <<"r","o","l","l"," ","a"," ","3","-","s","i","d","e","d"," ","d","i","e",","," ","p","r","i","m","e">>,
           <<"P","R","I","M","E"," ","4"," ","9">>, <<"p","r","i","m","e","s",":"," ","2",","," ","3"," ","a","n","d"," ","1","0">>, <<"i","s"," ","n","1","7"," ","p","r","i","m","e">>, <<"1","7","t","h"," ","p","r","i","m","e">>, <<"p","r","i","m","e"," ","1","_","0","0","0">>, <<"p","r","i","m","e"," ","2",".","5">>, <<"P","r","i","m","e","-","7">>,
           <<"w","h","a","t"," ","i","s"," ","s","i","d","e","d">>, <<"3","-","s","i","d","e","d">> }

N_is_prime == <<"i","s","_","p","r","i","m","e">>

K_n == <<"n">>

\* inputs of the tool functions of tools.py, called directly: is_prime for
\* the numbers from -3 on, check_prime for short lists and two longer ones,
\* roll_dice for numbers of sides around 0 and around the limit of validation
ToolCases ==
    LET Case(tool_name, kwargs) == [kind |-> "tool", tool |-> tool_name, kwargs |-> kwargs, text |-> << >>]
        elems == {IntV(n) : n \in {-3, 0, 1, 2, 3, 4, 9, 11}}
    IN  {Case(N_is_prime, K_n :> IntV(n)) : n \in (0 - 3)..MaxPrimeProbe}
        \cup {Case(N_check_prime, K_numbers :> ListV(l)) : l \in SeqsOf(elems, 1, MaxListLen)}
        \cup {Case(N_check_prime, K_numbers :> ListV(<<IntV(2), IntV(3), IntV(4), IntV(5), IntV(9), IntV(11)>>)),
              Case(N_check_prime, K_numbers :> ListV(<<IntV(4), IntV(6), IntV(8), IntV(9)>>))}
        \cup {Case(N_roll_dice, K_sides :> IntV(n)) : n \in ((0 - 2)..(MaxRollEnum + 2)) \cup {20, MaxSides, MaxSides + 1}}

ProbeInputs == ValidationCases \cup {TextCase(t) : t \in FallbackTexts} \cup ToolCases

InitFunctions ==
    /\ variant \in Variants
    /\ ollama = "ok"
    /\ llm_required = FALSE
    /\ startup = "new"
    /\ client = "None"
    /\ IdleRequest
    /\ peer = PeerIdle
    /\ agent = [phase |-> "absent"]
    /\ aloha_client = [pc |-> "absent"]
    /\ probe \in {[fn |-> "none", input |-> x, out |-> NoResult, again |-> NoResult] : x \in ProbeInputs}

\* validate_tool_parameters(tool_name, **kwargs) is called
ProbeValidate ==
    /\ probe.fn = "none"
    /\ probe.input.kind = "validate"
    /\ probe' = [probe EXCEPT !.fn = "validate_tool_parameters",
                              !.out = validate_tool_parameters(probe.input.tool, probe.input.kwargs)]
    /\ UNCHANGED <<config, current_task, agent, aloha_client, executor, peer, pc, message, message_text, messages, iteration, tool_calls, tc, result,
                   events, task_state, raised, backend_calls, responses, tool_log>>

\* _fallback_processing(message_text) is called
ProbeFallback ==
    /\ probe.fn = "none"
    /\ probe.input.kind = "fallback"
    /\ \E o \in _fallback_processing(probe.input.text) :
        probe' = [probe EXCEPT !.fn = "_fallback_processing", !.out = o.result]
    /\ UNCHANGED <<config, current_task, agent, aloha_client, executor, peer, pc, message, message_text, messages, iteration, tool_calls, tc, result,
                   events, task_state, raised, backend_calls, responses, tool_log>>

\* _fallback_processing is called a second time with the same text
ProbeFallbackAgain ==
    /\ probe.fn = "_fallback_processing"
    /\ probe.again = NoResult
    /\ \E o \in _fallback_processing(probe.input.text) :
        probe' = [probe EXCEPT !.again = o.result]
    /\ UNCHANGED <<config, current_task, agent, aloha_client, executor, peer, pc, message, message_text, messages, iteration, tool_calls, tc, result,
                   events, task_state, raised, backend_calls, responses, tool_log>>

\* is_prime(n), check_prime(numbers) or roll_dice(sides) is called
ProbeTool ==
    /\ probe.fn = "none"
    /\ probe.input.kind = "tool"
    /\ \E o \in (IF probe.input.tool = N_is_prime THEN {Returned(BoolV(is_prime(probe.input.kwargs[K_n].v)))}
                  ELSE CallTool(probe.input.tool, probe.input.kwargs)) :
        probe' = [probe EXCEPT !.fn = "tool", !.out = o]
    /\ UNCHANGED <<config, current_task, agent, aloha_client, executor, peer, pc, message, message_text, messages, iteration, tool_calls, tc, result,
                   events, task_state, raised, backend_calls, responses, tool_log>>

NextFunctions ==
    \/ ProbeValidate
    \/ ProbeFallback
    \/ ProbeFallbackAgain
    \/ ProbeTool

SpecFunctions == InitFunctions /\ [][NextFunctions]_vars

(***************************************************************************)
(* The deployment: the DiceAgent of server/agent.py with its transport     *)
(* servers, and one run of the host's client against it.                   *)
(*                                                                         *)
(* agent: the fields of the DiceAgent; servers holds the uvicorn servers   *)
(* (app: the application built, activeTransport: what its /v1/transports   *)
(* reports, serving: serve() is running), _grpc_server the gRPC server.    *)
(* aloha_client: the fields of the AlohaClient; requests are the requests  *)
(* sent over the network, last the outcome of the last call, closed what   *)
(* close() closed; caller tells whether run_client drives the client or    *)
(* the methods are called directly, pc where run_client stands.            *)
(***************************************************************************)
\* DiceAgent(...) with the transport mode and ports of the environment, its
\* agent card (_create_agent_card), and Client(server_url, transport)
InitDeployment ==
    /\ variant = "server"
    /\ ollama = "ok"
    /\ llm_required = FALSE
    /\ startup = "new"
    /\ client = "None"
    /\ IdleRequest
    /\ peer = PeerIdle
    /\ probe = NoProbe
    /\ \E mode \in {<<"r","e","s","t">>, <<"R","E","S","T">>, <<"j","s","o","n","r","p","c">>, <<"g","r","p","c">>, <<"G","R","P","C">>, <<"h","t","t","p">>},
          ports \in {[grpc |-> 13000, jsonrpc |-> 13001, rest |-> 13002], [grpc |-> 50051, jsonrpc |-> 8001, rest |-> 8080]} :
        /\ agent = [transport_mode |-> Lower(mode),
                    grpc_port |-> ports.grpc, jsonrpc_port |-> ports.jsonrpc, rest_port |-> ports.rest,
                    agent_card |-> IF Lower(mode) = <<"g","r","p","c">>
                                   THEN [url |-> <<"l","o","c","a","l","h","o","s","t",":">> \o IntToStr(ports.grpc), preferred_transport |-> <<"G","R","P","C">>]
                                   ELSE IF Lower(mode) = <<"j","s","o","n","r","p","c">>
                                   THEN [url |-> <<"h","t","t","p",":","/","/","l","o","c","a","l","h","o","s","t",":">> \o IntToStr(ports.jsonrpc), preferred_transport |-> <<"J","S","O","N","R","P","C">>]
                                   ELSE [url |-> <<"h","t","t","p",":","/","/","l","o","c","a","l","h","o","s","t",":">> \o IntToStr(ports.rest), preferred_transport |-> <<"H","T","T","P","+","J","S","O","N">>],
                    servers |-> << >>,
                    _grpc_server |-> [port |-> 0, state |-> "unset"],
                    phase |-> "constructed"]
        /\ \E caller \in {"run_client", "direct"}, transport \in {<<"r","e","s","t">>, <<"R","E","S","T">>, <<"j","s","o","n","r","p","c">>, <<"g","r","p","c">>}, flag \in BOOLEAN,
              port \in {ports.grpc, ports.jsonrpc, ports.rest} :
            aloha_client = [caller |-> caller, pc |-> IF caller = "direct" THEN "direct" ELSE "new",
                            transport_arg |-> transport, transport |-> Lower(transport), port |-> port, probe |-> flag,
                            httpx_client |-> "None", _transport |-> "None", _grpc_channel |-> "None",
                            agent_card |-> [url |-> << >>, preferred_transport |-> << >>],
                            initialized |-> FALSE, requests |-> << >>,
                            last |-> [call |-> "none", exc |-> "none", val |-> << >>],
                            failed |-> FALSE, closed |-> {}, closes |-> 0, calls |-> 0]

\* start() that serves REST whatever the mode
startRestOnly ==
    /\ agent.phase = "constructed"
    /\ agent' = [agent EXCEPT !.servers = <<[app |-> "rest", port |-> agent.rest_port, activeTransport |-> <<"r","e","s","t">>,
                                             should_exit |-> FALSE, serving |-> TRUE]>>,
                              !.phase = "started"]
    /\ UNCHANGED <<config, current_task, aloha_client, peer, probe, executor, pc, message, message_text, messages, iteration,
                   tool_calls, tc, result, events, task_state, raised, backend_calls, responses, tool_log>>

\* start(): _start_jsonrpc, _start_grpc or _start_rest by the mode.  The set-up
\* can raise before a server exists (setup), in grpc mode after the gRPC
\* server started (rest_setup), and serve() can raise (serve).
start ==
    /\ agent.phase = "constructed"
    /\ \E outcome \in {"ok", "setup", "rest_setup", "serve"} :
        LET mode == agent.transport_mode
            server == IF mode = <<"j","s","o","n","r","p","c">>
                      THEN [app |-> "jsonrpc", port |-> agent.jsonrpc_port, activeTransport |-> <<"j","s","o","n","r","p","c">>,
                            should_exit |-> FALSE, serving |-> outcome = "ok"]
                      ELSE [app |-> "rest", port |-> agent.rest_port,
                            activeTransport |-> IF mode = <<"g","r","p","c">> THEN <<"g","r","p","c">> ELSE <<"r","e","s","t">>,
                            should_exit |-> FALSE, serving |-> outcome = "ok"]
            first_fails == outcome = "setup" \/ (outcome = "rest_setup" /\ mode # <<"g","r","p","c">>)
        IN  agent' = [agent EXCEPT
                !._grpc_server = IF mode = <<"g","r","p","c">> /\ ~first_fails
                                 THEN [port |-> agent.grpc_port, state |-> "started"] ELSE @,
                !.servers = IF first_fails \/ outcome = "rest_setup" THEN @
                            ELSE Append(@, server),
                !.phase = IF outcome = "ok" THEN "started" ELSE "failed"]
    /\ UNCHANGED <<config, current_task, aloha_client, peer, probe, executor, pc, message, message_text, messages, iteration,
                   tool_calls, tc, result, events, task_state, raised, backend_calls, responses, tool_log>>

\* stop(), called by main() once start() returned or raised: should_exit on
\* every server of self.servers, and _grpc_server.stop() if there is one
stop ==
    /\ agent.phase \in {"started", "failed"}
    /\ agent' = [agent EXCEPT
            !.servers = [i \in 1..Len(agent.servers) |->
                            [agent.servers[i] EXCEPT !.should_exit = TRUE, !.serving = FALSE]],
            !._grpc_server = IF @.state = "started" THEN [@ EXCEPT !.state = "stopped"] ELSE @,
            !.phase = "stopped"]
    /\ UNCHANGED <<config, current_task, aloha_client, peer, probe, executor, pc, message, message_text, messages, iteration,
                   tool_calls, tc, result, events, task_state, raised, backend_calls, responses, tool_log>>

\* run_client up to the call of initialize(): any transport but 'rest' raises
\* RuntimeError, which leads to the handler and the finally clause
run_client ==
    /\ aloha_client.pc = "new"
    /\ aloha_client' =
         IF aloha_client.transport_arg # <<"r","e","s","t">>
         THEN [aloha_client EXCEPT !.last = [call |-> "run_client", exc |-> "RuntimeError", val |-> << >>],
                                   !.failed = TRUE, !.pc = "close"]
         ELSE [aloha_client EXCEPT !.pc = "initialize"]
    /\ UNCHANGED <<config, current_task, agent, peer, probe, executor, pc, message, message_text, messages, iteration,
                   tool_calls, tc, result, events, task_state, raised, backend_calls, responses, tool_log>>

\* initialize(): _init_grpc or _init_http.  The httpx client is created, the
\* agent card is fetched over HTTP (for grpc from the port two above), and
\* only then the transport (and the gRPC channel) is set.  The fetch fails
\* unless a server of the agent serves that port.
initialize ==
    /\ \/ aloha_client.pc = "initialize"
       \/ aloha_client.pc = "direct" /\ aloha_client.calls < MaxDirectCalls
    /\ LET c == aloha_client
           card_port == IF c.transport = <<"g","r","p","c">> THEN c.port + 2 ELSE c.port
           served == \E i \in 1..Len(agent.servers) : agent.servers[i].port = card_port /\ agent.servers[i].serving
           asked == [c EXCEPT !.httpx_client = "open", !.calls = @ + 1,
                              !.requests = Append(@, [kind |-> "card", port |-> card_port])]
       IN  aloha_client' =
             IF served
             THEN [asked EXCEPT !.agent_card = agent.agent_card,
                                !._grpc_channel = IF c.transport = <<"g","r","p","c">> THEN "open" ELSE @,
                                !._transport = IF c.transport = <<"g","r","p","c">> THEN "GrpcTransport"
                                               ELSE IF c.transport = <<"j","s","o","n","r","p","c">> THEN "JsonRpcTransport"
                                               ELSE "RestTransport",
                                !.initialized = TRUE,
                                !.last = [call |-> "initialize", exc |-> "none", val |-> << >>],
                                !.pc = IF c.pc = "direct" THEN "direct" ELSE IF c.probe THEN "probe" ELSE "send"]
             ELSE [asked EXCEPT !.last = [call |-> "initialize", exc |-> "ConnectError", val |-> << >>],
                                !.failed = c.pc # "direct",
                                !.pc = IF c.pc = "direct" THEN "direct" ELSE "close"]
    /\ UNCHANGED <<config, current_task, agent, peer, probe, executor, pc, message, message_text, messages, iteration,
                   tool_calls, tc, result, events, task_state, raised, backend_calls, responses, tool_log>>

\* send_message(message_text): RuntimeError without a transport, else the
\* message is sent to the agent
send_message ==
    /\ \/ aloha_client.pc = "send"
       \/ aloha_client.pc = "direct" /\ aloha_client.calls < MaxDirectCalls
    /\ LET c == aloha_client
           served == \E i \in 1..Len(agent.servers) : agent.servers[i].port = c.port /\ agent.servers[i].serving
           exc == IF c._transport = "None" THEN "RuntimeError" ELSE IF served THEN "none" ELSE "ConnectError"
       IN  aloha_client' =
             [c EXCEPT !.calls = @ + 1,
                       !.requests = IF c._transport = "None" THEN @ ELSE Append(@, [kind |-> "message", port |-> c.port]),
                       !.last = [call |-> "send_message", exc |-> exc, val |-> << >>],
                       !.failed = c.pc # "direct" /\ exc # "none",
                       !.pc = IF c.pc = "direct" THEN "direct" ELSE "close"]
    /\ UNCHANGED <<config, current_task, agent, peer, probe, executor, pc, message, message_text, messages, iteration,
                   tool_calls, tc, result, events, task_state, raised, backend_calls, responses, tool_log>>

\* probe_transports(): RuntimeError without an httpx client, else GET
\* {server_url}/v1/transports, answered by the server of that port
probe_transports ==
    /\ \/ aloha_client.pc = "probe"
       \/ aloha_client.pc = "direct" /\ aloha_client.calls < MaxDirectCalls
    /\ LET c == aloha_client
           serving == {i \in 1..Len(agent.servers) : agent.servers[i].port = c.port /\ agent.servers[i].serving}
           exc == IF c.httpx_client = "None" THEN "RuntimeError" ELSE IF serving # {} THEN "none" ELSE "ConnectError"
       IN  aloha_client' =
             [c EXCEPT !.calls = @ + 1,
                       !.requests = IF c.httpx_client = "None" THEN @ ELSE Append(@, [kind |-> "transports", port |-> c.port]),
                       !.last = [call |-> "probe_transports", exc |-> exc,
                                 val |-> IF exc = "none" THEN agent.servers[CHOOSE i \in serving : TRUE].activeTransport
                                         ELSE << >>],
                       !.failed = c.pc # "direct" /\ exc # "none",
                       !.pc = IF c.pc = "direct" THEN "direct" ELSE "close"]
    /\ UNCHANGED <<config, current_task, agent, peer, probe, executor, pc, message, message_text, messages, iteration,
                   tool_calls, tc, result, events, task_state, raised, backend_calls, responses, tool_log>>

\* close(): the transport if there is one, else the httpx client if there is
\* one; and the gRPC channel.  run_client calls it in its finally clause.
close ==
    /\ aloha_client.pc \in {"close", "direct"}
    /\ LET c == aloha_client IN
       aloha_client' =
         [c EXCEPT !.closes = @ + 1,
                   !.closed = @ \cup (IF c._transport # "None" THEN {"_transport"}
                                      ELSE IF c.httpx_client # "None" THEN {"httpx_client"} ELSE {})
                                \cup (IF c._grpc_channel # "None" THEN {"_grpc_channel"} ELSE {}),
                   !.pc = "done"]
    /\ UNCHANGED <<config, current_task, agent, peer, probe, executor, pc, message, message_text, messages, iteration,
                   tool_calls, tc, result, events, task_state, raised, backend_calls, responses, tool_log>>

SpecDeployment ==
    /\ InitDeployment
    /\ [][start \/ stop \/ run_client \/ initialize \/ send_message \/ probe_transports \/ close]_vars
(***************************************************************************)
(* Definitions used to state the properties.                               *)
(***************************************************************************)
\* the loop of the request has returned or raised
LoopOver == pc \in {"returned", "finished"} /\ Len(messages) > 0

\* a response that asks for at least one tool call
HasToolCalls(resp) == resp.kind = "message" /\ Truthy(resp.message.tool_calls)

RECURSIVE RequestedCalls(_)
\* the number of tool calls in the assistant messages of a conversation
RequestedCalls(msgs) ==
    IF Len(msgs) = 0 THEN 0
    ELSE (IF msgs[1].role = "assistant" THEN Len(msgs[1].tool_calls.v) ELSE 0) + RequestedCalls(Tail(msgs))

\* the number of messages of a role
CountRole(msgs, role) == Cardinality({i \in 1..Len(msgs) : msgs[i].role = role})

\* every tool call requested so far was answered by a tool-role message
AllCallsAnswered == CountRole(messages, "tool") = RequestedCalls(messages)

\* the index of the last assistant message, 0 when there is none
LastAssistant(msgs) ==
    IF \E i \in 1..Len(msgs) : msgs[i].role = "assistant"
    THEN CHOOSE i \in 1..Len(msgs) : msgs[i].role = "assistant" /\ \A j \in (i + 1)..Len(msgs) : msgs[j].role # "assistant"
    ELSE 0

\* the number of messages after the last assistant message
AnswersOfTurn(msgs) == Len(msgs) - LastAssistant(msgs)

\* the loop raised while it processed the call at tc: the calls before it are
\* answered, this one is not
AbortedAtCall ==
    /\ LoopOver
    /\ result.exc \notin {"none", "pending"}
    /\ Len(responses) > 0 /\ HasToolCalls(responses[Len(responses)])
    /\ AnswersOfTurn(messages) = tc - 1

Last(s) == s[Len(s)]

\* the arguments of a call are an object for the executor: a dict, absent,
\* or in server/ null or a string that JSON-decodes to an object or null
ArgsAreObject(v, call) ==
    LET raw == RawArguments(call) IN
    \/ raw.t = "dict"
    \/ v = "server" /\ raw.t = "NoneType"
    \/ v = "server" /\ raw.t = "str" /\ json_loads(raw.v).exc = "none"
       /\ json_loads(raw.v).val.t \in {"dict", "NoneType"}

\* the keyword arguments such a call is dispatched with
ArgsDict(v, call) ==
    LET raw == RawArguments(call) IN
    IF raw.t = "dict" THEN raw.v
    ELSE IF raw.t = "str" /\ json_loads(raw.v).val.t = "dict" THEN json_loads(raw.v).val.v
    ELSE EmptyDict

\* a call of a registered tool whose arguments are an object and fail validation
FailsValidation(v, call) ==
    /\ call.function.name \in tools
    /\ ArgsAreObject(v, call)
    /\ validate_tool_parameters(call.function.name, ArgsDict(v, call)).exc # "none"

\* the contents a tool-role message answering the call can have
Observations(v, call) == {o.observation : o \in {x \in ProcessCall(v, call) : x.exc = "none"}}

\* the index of the last assistant message before position p, 0 without one
AssistantBefore(msgs, p) ==
    IF \E i \in 1..(p - 1) : msgs[i].role = "assistant"
    THEN CHOOSE i \in 1..(p - 1) : msgs[i].role = "assistant" /\ \A j \in (i + 1)..(p - 1) : msgs[j].role # "assistant"
    ELSE 0

\* the last elements of a sequence, as many as suffix has, are suffix
EndsWith(s, suffix) ==
    /\ Len(s) >= Len(suffix)
    /\ SubSeq(s, Len(s) - Len(suffix) + 1, Len(s)) = suffix

(***************************************************************************)
(* C2.  Every tool-role message of the conversation follows the assistant  *)
(* message whose tool call it answers with nothing but the answers to the  *)
(* earlier calls of that turn in between: the k-th message after an        *)
(* assistant message is a tool-role message that answers the k-th call of  *)
(* that turn.  While a turn is executed the calls before the current one   *)
(* are answered, and when the backend is called again all are.             *)
(***************************************************************************)
C2_ToolMessagesFollowAssistant ==
    /\ \A p \in 1..Len(messages) :
         messages[p].role = "tool" =>
           LET a == AssistantBefore(messages, p) IN
           /\ a > 0
           /\ p - a <= Len(messages[a].tool_calls.v)
           /\ messages[p].content \in Observations(variant, messages[a].tool_calls.v[p - a])
    /\ pc = "executing_tools" =>
         /\ LastAssistant(messages) > 0
         /\ tool_calls = messages[LastAssistant(messages)].tool_calls.v
         /\ AnswersOfTurn(messages) = tc - 1
    /\ (pc = "awaiting_model" /\ LastAssistant(messages) > 0) =>
         AnswersOfTurn(messages) = Len(messages[LastAssistant(messages)].tool_calls.v)

\* C2, witness: a turn of two different calls, the first answered, the second
\* failed
C2_Witness ==
    /\ AbortedAtCall
    /\ Len(tool_calls) = 2
    /\ tc = 2
    /\ tool_calls[1] # tool_calls[2]
    /\ messages[Len(messages)].role = "tool"

(***************************************************************************)
(* C3 (as stated; the fallback responder violates it).  No tool function   *)
(* is entered with arguments that validate_tool_parameters refuses for     *)
(* that tool, whether the call comes from the loop or from the fallback    *)
(* responder.                                                              *)
(***************************************************************************)
C3_ValidatedBeforeExecution ==
    \A i \in 1..Len(tool_log) :
        validate_tool_parameters(tool_log[i].tool, tool_log[i].kwargs).exc = "none"

(***************************************************************************)
(* C4.  When a tool call of the backend fails validation the loop raises   *)
(* the validation error: no tool-role message answers that call or a later *)
(* call of the turn, no tool is executed for them, the backend is not      *)
(* called again, and execute fails the task with the text                  *)
(* "Invalid request: <reason>".                                            *)
(***************************************************************************)
C4_ValidationFailureAborts ==
    (/\ LoopOver
     /\ Len(responses) > 0 /\ HasToolCalls(Last(responses))
     /\ FailsValidation(variant, tool_calls[tc]))
    => /\ result = validate_tool_parameters(tool_calls[tc].function.name, ArgsDict(variant, tool_calls[tc]))
       /\ result.exc = "ValueError"
       /\ AnswersOfTurn(messages) = tc - 1
       /\ Len(tool_log) <= CountRole(messages, "tool")
       /\ backend_calls = CountRole(messages, "assistant")
       /\ pc = "finished" =>
            /\ EndsWith(events, FailedEvents(variant, <<"I","n","v","a","l","i","d"," ","r","e","q","u","e","s","t",":"," ">> \o result.text))
            /\ task_state = "failed"

\* C4, witness: the first call of a turn of two failed validation and the
\* task was failed
C4_Witness ==
    /\ pc = "finished"
    /\ Len(responses) > 0 /\ HasToolCalls(Last(responses))
    /\ Len(tool_calls) = 2
    /\ tc = 1
    /\ FailsValidation(variant, tool_calls[tc])

(***************************************************************************)
(* Definitions used to state the properties of single steps of the loop.   *)
(***************************************************************************)
\* the step processes the tool call at tc
CallStep == pc = "executing_tools" /\ events' = events

\* the step receives a response of the backend
ResponseStep == pc = "awaiting_model" /\ Len(responses') = Len(responses) + 1

\* the message that answers a call of a tool that is not registered
UnknownToolMessage(name) == [role |-> "tool", content |-> <<"E","r","r","o","r",":"," ","U","n","k","n","o","w","n"," ","t","o","o","l"," ","'">> \o name \o <<"'">>]

\* a call of a tool that is not registered whose arguments the executor
\* accepts: agent/ passes any arguments on, server/ wants an object
UnknownAccepted(v, call) ==
    /\ call.function.name \notin tools
    /\ v = "agent" \/ ArgsAreObject(v, call)

\* the description of a failure has the wording of a refused connection
RefusalWording(text) == Contains(Lower(text), <<"c","o","n","n","e","c","t","i","o","n">>) \/ Contains(Lower(text), <<"r","e","f","u","s","e","d">>)

\* a text content that is there and not empty
HasText(content) == content.t = "str" /\ Len(content.v) > 0

(***************************************************************************)
(* C5 (as amended).  For every tool call whose name is not registered and  *)
(* whose arguments the executor accepts (agent/: any arguments; server/:   *)
(* absent, null, an object, or a string that JSON-decodes to an object or  *)
(* null) the loop does not abort: it appends one tool-role message         *)
(* "Error: Unknown tool '<name>'" in the position of the call, executes no *)
(* tool for it, and goes on with the next call of the turn, or after the   *)
(* last call calls the backend again unless the 5 iterations are used up.  *)
(***************************************************************************)
C5_UnknownToolObserved ==
    [][(CallStep /\ UnknownAccepted(variant, tool_calls[tc]))
       => /\ messages' = Append(messages, UnknownToolMessage(tool_calls[tc].function.name))
          /\ tool_log' = tool_log
          /\ result'.exc \in {"none", "pending"}
          /\ IF tc < Len(tool_calls)
             THEN tc' = tc + 1 /\ pc' = "executing_tools" /\ backend_calls' = backend_calls
             ELSE IF iteration < max_iterations
             THEN pc' = "awaiting_model" /\ backend_calls' = backend_calls + 1
             ELSE pc' = "returned" /\ result' = Returned(StrV(MaxIterationsText))]_vars

\* C5, witness: a call of an unregistered tool with arguments that are no
\* object was answered in agent/, and one with a decoded string in server/
C5_Witness ==
    /\ pc = "awaiting_model"
    /\ backend_calls = 2
    /\ Len(tool_calls) = 1
    /\ tool_calls[1].function.name \notin tools
    /\ RawArguments(tool_calls[1]).t = (IF variant = "agent" THEN "list" ELSE "str")
    /\ messages[Len(messages)] = UnknownToolMessage(tool_calls[1].function.name)

\* C5 as stated: whatever the arguments of the call
C5_AsStated ==
    [][(CallStep /\ tool_calls[tc].function.name \notin tools)
       => /\ messages' = Append(messages, UnknownToolMessage(tool_calls[tc].function.name))
          /\ tool_log' = tool_log
          /\ result'.exc \in {"none", "pending"}]_vars

(***************************************************************************)
(* C6.  When a call of the chat backend fails, in any iteration, the loop  *)
(* is left at once: nothing is appended to the conversation and the        *)
(* backend is not called again.  A failure whose description contains      *)
(* "connection" or "refused" in any letter case is raised as               *)
(* ConnectionError, any other failure is raised again as it is.            *)
(***************************************************************************)
C6_BackendFailureAborts ==
    /\ [][(ResponseStep /\ Last(responses').kind = "error")
          => /\ messages' = messages
             /\ backend_calls' = backend_calls
             /\ tool_log' = tool_log
             /\ pc' = "returned"
             /\ IF RefusalWording(Last(responses').text)
                THEN result'.exc = "ConnectionError"
                ELSE result' = Raised(Last(responses').exc, Last(responses').text)]_vars
    /\ []((LoopOver /\ Len(responses) > 0 /\ Last(responses).kind = "error")
          => /\ backend_calls = Len(responses)
             /\ CountRole(messages, "assistant") = Len(responses) - 1
             /\ result.exc \notin {"none", "pending"})

\* C6, witness: the third call of the backend failed with the wording in
\* capitals and the loop raised ConnectionError
C6_Witness ==
    /\ pc = "returned"
    /\ Len(responses) = 3
    /\ responses[3] = ChatError("ResponseError", <<"R","E","F","U","S","E","D",":"," ","m","o","d","e","l"," ","i","s"," ","l","o","a","d","i","n","g">>)
    /\ result.exc = "ConnectionError"

(***************************************************************************)
(* C7.  When the first response of the backend holds exactly one valid     *)
(* roll_dice call and the second holds text and no tool calls, the loop    *)
(* executes roll_dice exactly once, calls the backend exactly twice, the   *)
(* conversation ends as system, user, assistant, tool with the roll as the *)
(* content of the tool message, and the loop returns the text of the       *)
(* second response.                                                        *)
(***************************************************************************)
C7_HappyPath ==
    (/\ Len(responses) >= 2
     /\ HasToolCalls(responses[1])
     /\ Len(responses[1].message.tool_calls.v) = 1
     /\ responses[1].message.tool_calls.v[1].function.name = N_roll_dice
     /\ ArgsAreObject(variant, responses[1].message.tool_calls.v[1])
     /\ DOMAIN ArgsDict(variant, responses[1].message.tool_calls.v[1]) = {K_sides}
     /\ validate_tool_parameters(N_roll_dice, ArgsDict(variant, responses[1].message.tool_calls.v[1])).exc = "none"
     /\ responses[2].kind = "message"
     /\ ~HasToolCalls(responses[2])
     /\ HasText(responses[2].message.content))
    => /\ Len(responses) = 2
       /\ backend_calls = 2
       /\ Len(tool_log) = 1
       /\ tool_log[1].tool = N_roll_dice
       /\ tool_log[1].kwargs = ArgsDict(variant, responses[1].message.tool_calls.v[1])
       /\ Len(messages) = 4
       /\ [i \in 1..4 |-> messages[i].role] = <<"system", "user", "assistant", "tool">>
       /\ messages[3] = responses[1].message
       /\ \E r \in 1..AsInt(tool_log[1].kwargs[K_sides]) : messages[4].content = IntToStr(r)
       /\ pc \in {"returned", "finished"}
       /\ result = Returned(StrV(responses[2].message.content.v))

\* C7, witness: a roll of a dice of two sides came up 2 and the loop returned
\* the text of the second response
C7_Witness ==
    /\ pc = "returned"
    /\ Len(responses) = 2
    /\ HasToolCalls(responses[1])
    /\ responses[1].message.tool_calls.v = <<RollCall(2)>>
    /\ Len(messages) = 4
    /\ messages[4].content = <<"2">>
    /\ result = Returned(StrV(FinalText))

(***************************************************************************)
(* C8.  Whenever a response of the backend holds no tool calls the loop    *)
(* returns in that iteration the text content of the response, or          *)
(* "I processed your request." when the content is empty or missing; no    *)
(* tool is executed and no message is appended in that iteration.          *)
(***************************************************************************)
C8_FinalAnswer ==
    [][(/\ ResponseStep
        /\ Last(responses').kind = "message"
        /\ ~HasToolCalls(Last(responses')))
       => /\ pc' = "returned"
          /\ result' = Returned(StrV(IF HasText(Last(responses').message.content)
                                     THEN Last(responses').message.content.v
                                     ELSE ProcessedText))
          /\ messages' = messages
          /\ tool_log' = tool_log
          /\ iteration' = iteration
          /\ backend_calls' = backend_calls]_vars

\* C8, witness: after a turn of tool calls the backend answered without
\* content and the fixed string was returned
C8_Witness ==
    /\ pc = "returned"
    /\ Len(responses) = 2
    /\ responses[2] = ChatMessage(NoneV, NoneV)
    /\ result = Returned(StrV(ProcessedText))
    /\ CountRole(messages, "tool") > 0

(***************************************************************************)
(* C9 (as stated; the loop never looks at the cancellation).  After        *)
(* cancel() was requested for the request in flight, while the loop runs,  *)
(* the loop makes no further call of the backend and executes no further   *)
(* tool for that request.                                                  *)
(***************************************************************************)
C9_CancelStopsLoop ==
    [][(task_state = "canceled" /\ pc \in {"awaiting_model", "executing_tools"})
       => /\ backend_calls' <= backend_calls
          /\ Len(tool_log') <= Len(tool_log)]_vars

(***************************************************************************)
(* C10 (as stated; agent/ has no fallback).  Start-up has three outcomes:  *)
(* with the backend reachable the client is kept and requests go through   *)
(* the loop; with the backend unreachable or not installed and             *)
(* OLLAMA_REQUIRED false start-up succeeds without a client and every      *)
(* request is answered by the fallback responder without a backend call;   *)
(* with OLLAMA_REQUIRED true start-up fails with an error.                 *)
(***************************************************************************)
C10_StartupOutcomes ==
    startup # "new"
    => /\ ollama = "ok"
          => /\ startup = "ready"
             /\ client = "Client"
       /\ (ollama \in {"unreachable", "not_installed"} /\ ~llm_required)
          => /\ startup = "ready"
             /\ client = "None"
             /\ backend_calls = 0
             /\ pc \notin {"awaiting_model", "executing_tools"}
       /\ (ollama \in {"unreachable", "not_installed"} /\ llm_required)
          => startup \notin {"new", "ready"}

(***************************************************************************)
(* Definitions used to compare a request with the same request run alone.  *)
(***************************************************************************)
\* the locals of a loop that was just entered for a text
AloneStart(text) ==
    [pc |-> "awaiting_model", message_text |-> text,
     messages |-> <<[role |-> "system", content |-> system_message], [role |-> "user", content |-> text]>>,
     iteration |-> 1, tool_calls |-> << >>, tc |-> 0, result |-> NoResult, backend_calls |-> 1,
     responses |-> << >>, tool_log |-> << >>]

RECURSIVE RunAlone(_, _, _)
\* the locals a loop can have, run without any other request, once the
\* backend gave the answers resps and every tool call asked for was processed
RunAlone(v, st, resps) ==
    IF st.pc = "executing_tools" THEN UNION {RunAlone(v, s2, resps) : s2 \in OnCall(v, st)}
    ELSE IF st.pc = "awaiting_model" /\ Len(resps) > 0 THEN RunAlone(v, OnResponse(st, Head(resps)), Tail(resps))
    ELSE {st}

\* the locals of the loop of the first request
MainLocals ==
    [pc |-> IF pc = "finished" THEN "returned" ELSE pc, message_text |-> message_text, messages |-> messages,
     iteration |-> iteration, tool_calls |-> tool_calls, tc |-> tc, result |-> result,
     backend_calls |-> backend_calls, responses |-> responses, tool_log |-> tool_log]

\* the loop has returned or raised
Returning(st) == st.pc = "returned" /\ Len(st.messages) > 0

(***************************************************************************)
(* C11.  No conversation state is shared between requests.  With two       *)
(* requests in flight, in any interleaving of their steps, each ends with  *)
(* the conversation, tool log and result it would have when run alone with *)
(* the same backend responses; a step of one request leaves the            *)
(* conversation and the other locals of the other request as they are; and *)
(* no step of a request changes the executor (start-up state, client).     *)
(***************************************************************************)
C11_RequestsIndependent ==
    /\ []((pc = "returned" /\ Returning(MainLocals)) => MainLocals \in RunAlone(variant, AloneStart(message_text), responses))
    /\ [](Returning(peer) => peer \in RunAlone(variant, AloneStart(peer.message_text), peer.responses))
    /\ [][/\ peer' # peer => UNCHANGED <<messages, iteration, tool_calls, tc, result, responses, tool_log>>
          /\ MainLocals' # MainLocals => peer' = peer
          /\ startup = "ready" => UNCHANGED <<startup, client>>]_vars

\* C11, witness: both requests are in the middle of a turn of tool calls, the
\* second in its second turn, with different conversations
C11_Witness ==
    /\ pc = "executing_tools"
    /\ peer.pc = "executing_tools"
    /\ peer.tc = 2
    /\ peer.iteration = 2
    /\ iteration = 2
    /\ Len(messages) = 5
    /\ Len(peer.messages) = 7


(***************************************************************************)
(* Definitions about the outcome that execute reports.                     *)
(***************************************************************************)
\* the completed and failed status events put on the queue so far
TerminalEvents == SelectSeq(events, LAMBDA e : e.state \in {"completed", "failed"})

\* the text reported with the last event: in server/ the message of the
\* status, in agent/ the artifact added just before it
OutcomeText ==
    IF variant = "server" THEN Last(events).text
    ELSE IF Len(events) > 1 /\ events[Len(events) - 1].state = "artifact" THEN events[Len(events) - 1].text
    ELSE << >>

\* processing returned a text
ProcessingReturned == result.exc = "none"

BackendFailed == Len(responses) > 0 /\ Last(responses).kind = "error"

\* processing raised an exception that `except ValueError` does not catch
UnexpectedFailure == result.exc \notin {"none", "pending"} /\ ~IsValueError(result.exc)

Validated(tool_name) == probe.fn = "validate_tool_parameters" /\ probe.input.tool = tool_name

\* x is an integer: a JSON number without fraction, not a boolean
IsInteger(x) == x.t = "int"

(***************************************************************************)
(* C14 (as stated; a boolean passes as an integer).                        *)
(* validate_tool_parameters("roll_dice", args) succeeds if and only if     *)
(* args contains sides, sides is an integer and 1 <= sides <= 1,000,000;   *)
(* otherwise it fails with a ValueError.                                   *)
(***************************************************************************)
C14_RollDiceValidation ==
    Validated(N_roll_dice)
    => LET kwargs == probe.input.kwargs IN
       /\ probe.out.exc = "none" <=> /\ K_sides \in DOMAIN kwargs
                                     /\ IsInteger(kwargs[K_sides])
                                     /\ 1 <= kwargs[K_sides].v
                                     /\ kwargs[K_sides].v <= 1000000
       /\ probe.out.exc \in {"none", "ValueError"}

(***************************************************************************)
(* C15 (as stated; a boolean element passes as an integer).                *)
(* validate_tool_parameters("check_prime", args) succeeds if and only if   *)
(* args contains numbers, numbers is a list of 1 to 1000 elements and      *)
(* every element is a non-negative integer; otherwise it fails with a      *)
(* ValueError.                                                             *)
(***************************************************************************)
C15_CheckPrimeValidation ==
    Validated(N_check_prime)
    => LET kwargs == probe.input.kwargs IN
       /\ probe.out.exc = "none" <=> /\ K_numbers \in DOMAIN kwargs
                                     /\ kwargs[K_numbers].t = "list"
                                     /\ Len(kwargs[K_numbers].v) >= 1
                                     /\ Len(kwargs[K_numbers].v) <= 1000
                                     /\ \A i \in 1..Len(kwargs[K_numbers].v) :
                                           /\ IsInteger(kwargs[K_numbers].v[i])
                                           /\ kwargs[K_numbers].v[i].v >= 0
       /\ probe.out.exc \in {"none", "ValueError"}

(***************************************************************************)
(* C16.  Within one invocation the conversation is append-only: it is      *)
(* created as exactly [system instruction, user message] when the loop is  *)
(* entered, afterwards a step either leaves it as it is or, being a step   *)
(* of the loop, appends one message to it, and it is dropped only with     *)
(* the request; a request that has not entered the loop has an empty       *)
(* conversation, so nothing of an earlier request is in it.                *)
(***************************************************************************)
C16_ConversationAppendOnly ==
    /\ [](pc \in {"idle", "process"} => messages = << >>)
    /\ [](Len(messages) > 0 =>
            /\ Len(messages) >= 2
            /\ messages[1] = [role |-> "system", content |-> system_message]
            /\ messages[2] = [role |-> "user", content |-> message_text])
    /\ [][\/ messages' = messages
          \/ /\ pc = "process"
             /\ messages = << >>
             /\ messages' = <<[role |-> "system", content |-> system_message],
                              [role |-> "user", content |-> message_text]>>
          \/ /\ pc \in {"awaiting_model", "executing_tools"}
             /\ Len(messages') = Len(messages) + 1
             /\ SubSeq(messages', 1, Len(messages)) = messages
          \/ /\ pc = "finished"
             /\ pc' = "idle"
             /\ messages' = << >>]_vars

\* C16, witness: the third backend call of a request is awaited with a
\* conversation of six messages
C16_Witness ==
    /\ pc = "awaiting_model"
    /\ iteration = 3
    /\ Len(messages) = 6
    /\ messages[3].role = "assistant"
    /\ messages[6].role = "tool"

(***************************************************************************)
(* Definitions about the arguments of a tool call.                         *)
(***************************************************************************)
\* the arguments of the call are an object, given as such, as a string that
\* encodes one, or absent
EncodedOrObject(call) ==
    LET raw == RawArguments(call) IN
    \/ raw.t = "dict"
    \/ raw.t = "str" /\ json_loads(raw.v).exc = "none" /\ json_loads(raw.v).val.t = "dict"

\* a call of a registered tool with such arguments that pass validation and
\* with which the tool returns
Executable(call) ==
    /\ call.function.name \in tools
    /\ EncodedOrObject(call)
    /\ validate_tool_parameters(call.function.name, ArgsDict(variant, call)).exc = "none"
    /\ \A r \in CallTool(call.function.name, ArgsDict(variant, call)) : r.exc = "none"

(***************************************************************************)
(* C17 (as stated; agent/ does not decode arguments given as a string).    *)
(* The tool calls of a turn are processed one at a time in the order       *)
(* received: the step for the call at hand, when its arguments (decoded    *)
(* if given as a JSON string, the empty object if absent) pass validation, *)
(* executes the tool with them and appends the stringified result as one   *)
(* tool-role message, and then the next call is at hand; the backend is    *)
(* called again only by the step for the last call of the turn.            *)
(***************************************************************************)
C17_CallsInOrderDecoded ==
    [][CallStep =>
         LET call == tool_calls[tc] IN
         /\ Executable(call) =>
               /\ \E r \in CallTool(call.function.name, ArgsDict(variant, call)) :
                     messages' = Append(messages, [role |-> "tool", content |-> PyStr(r.val)])
               /\ tool_log' = Append(tool_log, LogEntry(call.function.name, ArgsDict(variant, call)))
               /\ IF tc < Len(tool_calls) THEN tc' = tc + 1 /\ pc' = "executing_tools"
                  ELSE pc' \in {"awaiting_model", "returned"}
         /\ pc' = "awaiting_model" => tc = Len(tool_calls)
         /\ tool_calls' = tool_calls]_vars

(***************************************************************************)
(* Definitions about direct calls of the fallback responder.               *)
(***************************************************************************)
\* _fallback_processing was called with the text
FellBack == probe.fn = "_fallback_processing"

\* the positions of the text at which a number starts that is followed by
\* sided, with one of the separators seps or nothing in between
PatternStarts(s, seps) ==
    {i \in 1..Len(s) :
        /\ IsDigit(s[i])
        /\ i = 1 \/ ~IsDigit(s[i - 1])
        /\ LET e == DigitsEnd(s, i) IN
           \/ MatchAt(s, <<"s","i","d","e","d">>, e)
           \/ e <= Len(s) /\ s[e] \in seps /\ MatchAt(s, <<"s","i","d","e","d">>, e + 1)}

\* the number of the first such pattern of the text, DefaultSides without one
PatternSides(s, seps) ==
    IF PatternStarts(s, seps) = {} THEN DefaultSides
    ELSE LET i == CHOOSE j \in PatternStarts(s, seps) : \A k \in PatternStarts(s, seps) : j <= k
         IN  StrToNat(SubSeq(s, i, DigitsEnd(s, i) - 1))

\* text is "I rolled a {sides}-sided dice and got: {result}" with a result
\* in 1..sides
IsRollSentence(text, sides) ==
    LET prefix == <<"I"," ","r","o","l","l","e","d"," ","a"," ">> \o IntToStr(sides) \o <<"-","s","i","d","e","d"," ","d","i","c","e"," ","a","n","d"," ","g","o","t",":"," ">>
        rest == SubSeq(text, Len(prefix) + 1, Len(text))
    IN  /\ Len(text) > Len(prefix)
        /\ SubSeq(text, 1, Len(prefix)) = prefix
        /\ \A i \in 1..Len(rest) : IsDigit(rest[i])
        /\ IntToStr(StrToNat(rest)) = rest
        /\ StrToNat(rest) \in 1..sides

\* text is an answer of the prime branch
IsPrimeAnswer(text) ==
    \/ text = NoNumbersText
    \/ text = <<"N","o","n","e"," ","o","f"," ","t","h","e"," ","n","u","m","b","e","r","s"," ","a","r","e"," ","p","r","i","m","e",".">>
    \/ EndsWith(text, <<" ","a","r","e"," ","p","r","i","m","e"," ","n","u","m","b","e","r","s",".">>)

\* the branch taken for the text, by the precedence of the responder
Branch(s) ==
    IF Contains(Lower(s), <<"r","o","l","l">>) /\ Contains(Lower(s), <<"d","i","c","e">>) THEN "roll"
    ELSE IF Contains(Lower(s), <<"p","r","i","m","e">>) THEN "prime"
    ELSE "capability"

\* the hyphen, and the separators the responder accepts: hyphen or white space
Hyphen == {"-"}

HyphenOrSpace == {"-", " ", "\t", "\n", "\r"}

(***************************************************************************)
(* C18 (as stated; a 0-sided dice cannot be rolled, and white space before *)
(* sided is accepted too).  The fallback responder picks its branch by     *)
(* precedence on the lower-cased text: with "roll" and "dice" it returns   *)
(* "I rolled a {sides}-sided dice and got: {result}" with result in        *)
(* 1..sides, sides being the number of a <number>[-]sided pattern or 6,    *)
(* also when the text contains "prime"; else with "prime" it answers from  *)
(* the prime branch; else it returns the capability sentence.              *)
(***************************************************************************)
C18_AsStated ==
    FellBack =>
        CASE Branch(probe.input.text) = "roll" ->
                /\ probe.out.exc = "none"
                /\ IsRollSentence(probe.out.val.v, PatternSides(Lower(probe.input.text), Hyphen))
          [] Branch(probe.input.text) = "prime" ->
                /\ probe.out.exc = "none"
                /\ IsPrimeAnswer(probe.out.val.v)
          [] OTHER -> probe.out = Returned(StrV(CapabilityText))

(***************************************************************************)
(* C18 (amended).  As above, with the pattern <number>[-\s]?sided (hyphen, *)
(* one white-space character or nothing before sided), and with a number   *)
(* of at least 1: for the number 0 the roll raises ValueError "Dice must   *)
(* have at least 1 side" and no text is returned.                          *)
(***************************************************************************)
C18_FallbackPrecedence ==
    FellBack =>
        CASE Branch(probe.input.text) = "roll" ->
                LET sides == PatternSides(Lower(probe.input.text), HyphenOrSpace) IN
                IF sides >= 1
                THEN probe.out.exc = "none" /\ IsRollSentence(probe.out.val.v, sides)
                ELSE probe.out = Raised("ValueError", <<"D","i","c","e"," ","m","u","s","t"," ","h","a","v","e"," ","a","t"," ","l","e","a","s","t"," ","1"," ","s","i","d","e">>)
          [] Branch(probe.input.text) = "prime" ->
                /\ probe.out.exc = "none"
                /\ IsPrimeAnswer(probe.out.val.v)
          [] OTHER -> probe.out = Returned(StrV(CapabilityText))

\* C18, witness: "Roll a 20-sided dice" was answered with a roll of 20
C18_Witness ==
    /\ FellBack
    /\ probe.input.text = <<"R","o","l","l"," ","a"," ","2","0","-","s","i","d","e","d"," ","d","i","c","e">>
    /\ probe.out.exc = "none"
    /\ Contains(probe.out.val.v, <<"2","0","-","s","i","d","e","d"," ","d","i","c","e"," ","a","n","d"," ","g","o","t",":">>)
    /\ EndsWith(probe.out.val.v, <<":"," ","2","0">>)

RECURSIVE DigitRuns(_, _, _)
\* the numbers written in the text from position i on, in order: every
\* maximal run of digits, or with delimited only the runs that have no
\* letter and no underscore next to them
DigitRuns(s, i, delimited) ==
    IF i > Len(s) THEN << >>
    ELSE IF ~IsDigit(s[i]) THEN DigitRuns(s, i + 1, delimited)
    ELSE LET e == DigitsEnd(s, i)
             alone == /\ i = 1 \/ ~IsWordChar(s[i - 1])
                      /\ e > Len(s) \/ ~IsWordChar(s[e])
         IN  (IF delimited => alone THEN <<StrToNat(SubSeq(s, i, e - 1))>> ELSE << >>)
             \o DigitRuns(s, e, delimited)

\* the answer of the prime branch for a list of numbers
PrimeAnswer(numbers) == Returned(StrV(IF Len(numbers) > 0 THEN check_prime(numbers) ELSE NoNumbersText))

(***************************************************************************)
(* C19 (as stated; a digit run next to a letter or underscore is not       *)
(* extracted).  In the prime branch of the fallback responder all          *)
(* contiguous digit runs of the text are extracted as numbers in order of  *)
(* appearance; with at least one the result is check_prime of that list,   *)
(* otherwise "Please provide numbers to check for primality.".             *)
(***************************************************************************)
C19_AsStated ==
    (FellBack /\ Branch(probe.input.text) = "prime")
    => probe.out = PrimeAnswer(DigitRuns(probe.input.text, 1, FALSE))

(***************************************************************************)
(* C19 (amended).  In the prime branch the digit runs delimited by word    *)
(* boundaries (no letter, digit or underscore next to the run) are         *)
(* extracted as numbers in order of appearance; with at least one the      *)
(* result is check_prime of that list, otherwise the request for numbers.  *)
(***************************************************************************)
C19_PrimeBranchNumbers ==
    (FellBack /\ Branch(probe.input.text) = "prime")
    => probe.out = PrimeAnswer(DigitRuns(probe.input.text, 1, TRUE))

\* C19, witness: of the numbers 2, 3 and 10 of a text the primes are named
C19_Witness ==
    /\ FellBack
    /\ probe.input.text = <<"p","r","i","m","e","s",":"," ","2",","," ","3"," ","a","n","d"," ","1","0">>
    /\ probe.out = Returned(StrV(<<"2",","," ","3"," ","a","r","e"," ","p","r","i","m","e"," ","n","u","m","b","e","r","s",".">>))

(***************************************************************************)
(* Definitions about requests answered by the fallback responder.          *)
(***************************************************************************)
\* the request is answered without a client, by the dice branch, with a
\* number of sides that validate_tool_parameters refuses
FallbackBadSides ==
    /\ client = "None"
    /\ pc \in {"returned", "finished"}
    /\ Branch(message_text) = "roll"
    /\ validate_tool_parameters(N_roll_dice, K_sides :> IntV(PatternSides(Lower(message_text), HyphenOrSpace))).exc # "none"

(***************************************************************************)
(* C20 (as stated; a number of sides above the limit is rolled).  A bad    *)
(* tool argument reached through the fallback responder does not crash the *)
(* executor: processing ends with a ValueError, the request ends with one  *)
(* failed status "Invalid request: <reason>", execute raises nothing and   *)
(* the executor stays ready.                                               *)
(***************************************************************************)
C20_FallbackBadArgument ==
    FallbackBadSides
    => /\ result.exc = "ValueError"
       /\ startup = "ready"
       /\ pc = "finished"
          => /\ Last(events) = Event("failed", <<"I","n","v","a","l","i","d"," ","r","e","q","u","e","s","t",":"," ">> \o result.text)
             /\ task_state = "failed"
             /\ raised = NoRaise

(***************************************************************************)
(* Definitions about direct calls of the functions of tools.py.            *)
(***************************************************************************)
\* the tool function was called directly
Called(tool_name) == probe.fn = "tool" /\ probe.input.tool = tool_name

\* the sieve of Eratosthenes up to MaxPrimeProbe: the multiples k * m, m >= k,
\* of the numbers k from 2 on are struck out
SieveComposites == UNION {{k * m : m \in k..(MaxPrimeProbe \div k)} : k \in {j \in 2..MaxPrimeProbe : j * j <= MaxPrimeProbe}}

SievePrimes == (2..MaxPrimeProbe) \ SieveComposites

(***************************************************************************)
(* C21.  is_prime(n) is false for every n <= 1, true for n = 2, false for  *)
(* every even n > 2, and for every n from 0 to 10000 it is true exactly    *)
(* when the sieve of Eratosthenes leaves n.                                *)
(***************************************************************************)
C21_IsPrimeMatchesSieve ==
    Called(N_is_prime)
    => LET n == probe.input.kwargs[K_n].v IN
       /\ probe.out.exc = "none"
       /\ probe.out.val.t = "bool"
       /\ n <= 1 => ~probe.out.val.v
       /\ n = 2 => probe.out.val.v
       /\ (n > 2 /\ n % 2 = 0) => ~probe.out.val.v
       /\ n \in 0..MaxPrimeProbe => (probe.out.val.v <=> n \in SievePrimes)

\* C21, witness: is_prime returned true for 9973, the largest prime below
\* 10000
C21_Witness ==
    /\ Called(N_is_prime)
    /\ probe.input.kwargs[K_n].v = 9973
    /\ probe.out = Returned(BoolV(TRUE))

\* n is a prime number, by definition: greater than 1 and divisible by no
\* number between 1 and itself
IsPrimeNumber(n) == n > 1 /\ \A d \in 2..(n - 1) : n % d # 0

\* the list of integers of a list value
IntsOf(l) == [i \in 1..Len(l.v) |-> l.v[i].v]

(***************************************************************************)
(* C22.  For every non-empty list of integers check_prime returns the      *)
(* sentence that lists exactly the prime elements of the input, in input   *)
(* order and as often as they occur, joined by ", " and followed by        *)
(* " are prime numbers."; without a prime element it returns "None of the  *)
(* numbers are prime.", as for [4, 6, 8, 9].                               *)
(***************************************************************************)
C22_CheckPrimeSentence ==
    Called(N_check_prime)
    => LET numbers == IntsOf(probe.input.kwargs[K_numbers])
           primes == SelectSeq(numbers, IsPrimeNumber)
       IN  /\ Len(primes) > 0
              => probe.out = Returned(StrV(Join([i \in 1..Len(primes) |-> IntToStr(primes[i])], <<","," ">>)
                                           \o <<" ","a","r","e"," ","p","r","i","m","e"," ","n","u","m","b","e","r","s",".">>))
           /\ Len(primes) = 0 => probe.out = Returned(StrV(<<"N","o","n","e"," ","o","f"," ","t","h","e"," ","n","u","m","b","e","r","s"," ","a","r","e"," ","p","r","i","m","e",".">>))
           /\ numbers = <<4, 6, 8, 9>> => probe.out = Returned(StrV(<<"N","o","n","e"," ","o","f"," ","t","h","e"," ","n","u","m","b","e","r","s"," ","a","r","e"," ","p","r","i","m","e",".">>))

\* C22, witness: check_prime([2, 3, 4, 5, 9, 11]) returned its sentence
C22_Witness ==
    /\ Called(N_check_prime)
    /\ IntsOf(probe.input.kwargs[K_numbers]) = <<2, 3, 4, 5, 9, 11>>
    /\ probe.out = Returned(StrV(<<"2",","," ","3",","," ","5",","," ","1","1"," ","a","r","e"," ","p","r","i","m","e"," ","n","u","m","b","e","r","s",".">>))

(***************************************************************************)
(* C23.  roll_dice(sides) returns for every sides >= 1 an integer r with   *)
(* 1 <= r <= sides, every value of that range being a possible result      *)
(* (checked where all results are enumerated, up to MaxRollEnum sides),    *)
(* and for sides <= 0 raises ValueError without returning a value.         *)
(***************************************************************************)
C23_RollDiceRange ==
    Called(N_roll_dice)
    => LET sides == probe.input.kwargs[K_sides].v IN
       IF sides >= 1
       THEN /\ probe.out.exc = "none"
            /\ probe.out.val.t = "int"
            /\ probe.out.val.v \in 1..sides
            /\ sides <= MaxRollEnum => \A r \in 1..sides : Returned(IntV(r)) \in roll_dice(sides)
       ELSE /\ probe.out.exc = "ValueError"
            /\ probe.out.val = NoneV

\* C23, witness: a dice of 20 sides showed 20
C23_Witness ==
    /\ Called(N_roll_dice)
    /\ probe.input.kwargs[K_sides].v = 20
    /\ probe.out = Returned(IntV(20))

(***************************************************************************)
(* Definitions about the progress of the loop.                             *)
(***************************************************************************)
\* the loop is running
InLoop == pc \in {"awaiting_model", "executing_tools"}

\* what is left to do: the iterations not begun, the response awaited, the
\* tool calls of the turn not processed
Remaining ==
    <<max_iterations - iteration, IF pc = "awaiting_model" THEN 1 ELSE 0, Len(tool_calls) - tc>>

\* a comes before b in the lexicographic order of triples
LexLess(a, b) ==
    \/ a[1] < b[1]
    \/ a[1] = b[1] /\ a[2] < b[2]
    \/ a[1] = b[1] /\ a[2] = b[2] /\ a[3] < b[3]

(***************************************************************************)
(* C24.  Every invocation of the loop terminates.  The iteration counter   *)
(* never exceeds 5 and the index of the tool call never exceeds the number *)
(* of calls of the turn; every step of a running loop that leaves it       *)
(* running reduces what is left to do; and, every backend call returning   *)
(* or failing, a running loop eventually returns or raises, whatever the   *)
(* backend answers.                                                        *)
(***************************************************************************)
C24_LoopTerminates ==
    /\ [](InLoop => /\ iteration \in 1..max_iterations
                    /\ pc = "executing_tools" => tc \in 1..Len(tool_calls))
    /\ [][(InLoop /\ InLoop') => LexLess(Remaining', Remaining)]_vars
    /\ [](InLoop => <>(pc = "returned"))

\* C24, witness: the backend asked for tools in every one of its responses
\* and the loop has returned
C24_Witness ==
    /\ pc = "returned"
    /\ Len(responses) = max_iterations
    /\ \A i \in 1..Len(responses) : HasToolCalls(responses[i])
    /\ result.exc = "none"
    /\ Len(tool_log) >= max_iterations

(***************************************************************************)
(* C25 (as stated).  Two invocations of the fallback responder with the    *)
(* same text return the same string.                                       *)
(***************************************************************************)
\* the responder was called twice with the same text
FellBackTwice == FellBack /\ probe.again # NoResult

C25_SameTextSameString == FellBackTwice => probe.again = probe.out

(***************************************************************************)
(* C25 (amended).  The fallback responder depends on its text and on the   *)
(* random generator of roll_dice only: a call never calls the chat backend *)
(* and changes nothing of the executor; two calls with the same text take  *)
(* the same branch; outside the dice branch they return the same string;   *)
(* in the dice branch they roll a dice of the same number of sides, and    *)
(* return two roll sentences that differ at most in the result, or raise   *)
(* the same ValueError.                                                    *)
(***************************************************************************)
C25_FallbackDependsOnTextOnly ==
    /\ [](FellBackTwice =>
            IF Branch(probe.input.text) = "roll"
            THEN LET sides == PatternSides(Lower(probe.input.text), HyphenOrSpace) IN
                 IF sides >= 1
                 THEN /\ probe.out.exc = "none" /\ IsRollSentence(probe.out.val.v, sides)
                      /\ probe.again.exc = "none" /\ IsRollSentence(probe.again.val.v, sides)
                 ELSE probe.again = probe.out /\ probe.out.exc = "ValueError"
            ELSE probe.again = probe.out /\ probe.out.exc = "none")
    /\ [][(probe'.fn = "_fallback_processing" /\ probe' # probe)
           => UNCHANGED <<backend_calls, responses, config, executor, messages, events, task_state>>]_vars

C25_Witness ==
    /\ FellBackTwice
    /\ probe.input.text = <<"r","o","l","l"," ","a"," ","4"," ","s","i","d","e","d"," ","d","i","c","e">>
    /\ EndsWith(probe.out.val.v, <<":"," ","1">>)
    /\ EndsWith(probe.again.val.v, <<":"," ","4">>)

(***************************************************************************)
(* C26.  cancel() changes a task only when it can be cancelled: a canceled *)
(* status is emitted by a call of cancel exactly when the context has a    *)
(* task whose state is none of canceled, completed, failed, and then the   *)
(* task is canceled; in the other cases the call emits no event and leaves *)
(* the state of the task as it was.  No other step emits a canceled        *)
(* status.                                                                 *)
(***************************************************************************)
\* the task of the context, if any, can be cancelled
Cancellable == task_state \notin {"none", "canceled", "completed", "failed"}

\* the step emits a canceled status
EmitsCanceled == Len(events') = Len(events) + 1 /\ Last(events').state = "canceled"

C26_CancelOnlyCancellable ==
    /\ [][Cancel => IF Cancellable
                    THEN EmitsCanceled /\ task_state' = "canceled" /\ SubSeq(events', 1, Len(events)) = events
                    ELSE UNCHANGED <<events, task_state>>]_vars
    /\ [][(EmitsCanceled \/ (task_state' = "canceled" /\ task_state # "canceled")) => Cancellable /\ Cancel]_vars
    /\ []((startup = "ready" /\ pc \in {"idle", "finished", "process", "returned"})
           => (Cancellable <=> ENABLED <<Cancel>>_vars))

C26_Witness ==
    /\ task_state = "canceled"
    /\ Last(events).state = "canceled"
    /\ Len(events) >= 2 /\ events[Len(events) - 1].state = "working"
    /\ pc = "awaiting_model"

(***************************************************************************)
(* C27.  The two executors agree on the task outcome.  For the same        *)
(* request text and the same backend responses, with the arguments of      *)
(* every tool call given as an object, the loops of agent/ and server/ end *)
(* with the same conversations, tool logs and results; execute reports     *)
(* completed with the returned text, or failed with the same text in both; *)
(* and an error is raised exactly by agent/ after a failed task.           *)
(***************************************************************************)
\* the arguments of every tool call the backend asked for are an object
ObjectArguments ==
    \A i \in 1..Len(responses) :
        HasToolCalls(responses[i]) =>
            \A j \in 1..Len(responses[i].message.tool_calls.v) :
                RawArguments(responses[i].message.tool_calls.v[j]).t = "dict"

\* the text execute reports for the result of processing, in either variant
ReportedText ==
    IF result.exc = "none" THEN result.val.v
    ELSE IF IsValueError(result.exc) THEN <<"I","n","v","a","l","i","d"," ","r","e","q","u","e","s","t",":"," ">> \o result.text
    ELSE <<"E","r","r","o","r"," ","p","r","o","c","e","s","s","i","n","g"," ","y","o","u","r"," ","r","e","q","u","e","s","t",":"," ">> \o result.text

FinalStatuses == SelectSeq(events, LAMBDA e : e.state \in {"canceled", "completed", "failed"})

C28_OneTerminalStatus == Len(FinalStatuses) <= 1

(***************************************************************************)
(* C29 (as stated; the handler goes by the wording of any failure).  The   *)
(* loop raises ConnectionError only when a call of the chat backend itself *)
(* failed: never for a failure that arises while a tool call is parsed,    *)
(* validated or executed.                                                  *)
(***************************************************************************)
\* the last call of the chat backend failed
BackendCallFailed == Len(responses) > 0 /\ Last(responses).kind = "error"

C29_ConnectionErrorOnlyFromBackend ==
    (pc \in {"returned", "finished"} /\ result.exc = "ConnectionError") => BackendCallFailed

(***************************************************************************)
(* C30 (as stated; a validated call can still fail to bind).  Validation   *)
(* is sufficient for execution: processing a tool call with a registered   *)
(* name whose argument map passes validate_tool_parameters appends exactly *)
(* one tool-role message and does not abort the loop.                      *)
(***************************************************************************)
\* the call has a registered name and an argument map that passes validation
PassesValidation(call) ==
    /\ call.function.name \in tools
    /\ RawArguments(call).t = "dict"
    /\ validate_tool_parameters(call.function.name, RawArguments(call).v).exc = "none"

C30_ValidationSufficient ==
    [][(pc = "executing_tools" /\ PassesValidation(CurrentCall(tool_calls, tc)))
       => /\ Len(messages') = Len(messages) + 1
          /\ Last(messages').role = "tool"
          /\ ~(pc' = "returned" /\ result'.exc # "none")]_vars

(***************************************************************************)
(* C31.  The status events of one call of execute come in a fixed order.   *)
(* For an invalid message (missing, without parts, without a text part)    *)
(* the only status is failed.  Otherwise the statuses are: submitted       *)
(* exactly when the context had no current task, then working, once, then  *)
(* completed or failed once execute is over.  The backend is called and    *)
(* tools are run only after working and before the terminal status.        *)
(***************************************************************************)
\* the states of the statuses execute emitted (cancel emits canceled; an
\* artifact is no status)
ExecuteStatuses ==
    LET own == SelectSeq(events, LAMBDA e : e.state \notin {"artifact", "canceled"})
    IN  [i \in 1..Len(own) |-> own[i].state]

\* the statuses before the terminal one, for a valid message
OpeningStatuses == (IF current_task = "None" THEN <<"submitted">> ELSE << >>) \o <<"working">>

C31_StatusOrder ==
    /\ [](pc # "idle" =>
            IF validate_message(message) # << >>
            THEN pc = "finished" /\ ExecuteStatuses = <<"failed">>
            ELSE IF pc = "finished"
            THEN ExecuteStatuses \in {OpeningStatuses \o <<"completed">>, OpeningStatuses \o <<"failed">>}
            ELSE ExecuteStatuses = OpeningStatuses)
    /\ [][(pc' # "idle" /\ (backend_calls' # backend_calls \/ tool_log' # tool_log))
           => /\ ExecuteStatuses = OpeningStatuses
              /\ ExecuteStatuses' = OpeningStatuses']_vars

C31_Witness ==
    /\ pc = "finished"
    /\ current_task = "None"
    /\ ExecuteStatuses = <<"submitted", "working", "completed">>
    /\ Len(tool_log) > 0
    /\ backend_calls > 1

(***************************************************************************)
(* C32.  A request whose extracted text is empty or only white space is    *)
(* failed with "Error: Empty message received. Please provide a message."  *)
(* and nothing else happens for it: no call of the chat backend, no tool   *)
(* run, no conversation, no answer of the fallback responder.              *)
(***************************************************************************)
\* the request in flight has a valid message whose text is empty or white space
EmptyTextRequest ==
    /\ pc # "idle"
    /\ validate_message(message) = << >>
    /\ \A i \in 1..Len(_extract_text_from_message(message)) :
           _extract_text_from_message(message)[i] \in {" ", "\t", "\n", "\r"}

C32_EmptyTextFails ==
    EmptyTextRequest
    => /\ pc = "finished"
       /\ Last(events).state = "failed"
       /\ OutcomeText = <<"E","r","r","o","r",":"," ","E","m","p","t","y"," ","m","e","s","s","a","g","e"," ","r","e","c","e","i","v","e","d","."," ","P","l","e","a","s","e"," ","p","r","o","v","i","d","e"," ","a"," ","m","e","s","s","a","g","e",".">>
       /\ Len(TerminalEvents) = 1
       /\ backend_calls = 0
       /\ responses = << >>
       /\ tool_log = << >>
       /\ messages = << >>
       /\ result = NoResult

C32_Witness ==
    /\ EmptyTextRequest
    /\ Len(message_text) > 0
    /\ client = "None"
    /\ current_task = "Task"
    /\ task_state = "failed"

(***************************************************************************)
(* C33 (as stated; the tools of the last permitted turn are run and their  *)
(* results dropped).  Every tool execution is followed by a call of the    *)
(* backend that receives its observation: the loop is never over with the  *)
(* observation of a tool, executed after the last answer of the backend,   *)
(* at the end of the conversation, sent to nobody.                         *)
(***************************************************************************)
\* the conversation ends with the observation of a tool that was executed
\* for the last answer of the backend
EndsWithObservation ==
    /\ Len(responses) > 0
    /\ HasToolCalls(Last(responses))
    /\ Len(messages) > 0
    /\ Last(messages).role = "tool"
    /\ ~MatchAt(Last(messages).content, <<"E","r","r","o","r",":"," ","U","n","k","n","o","w","n"," ","t","o","o","l">>, 1)
    /\ Len(tool_log) > 0

C33_ObservationsReachBackend == pc \in {"returned", "finished"} => ~EndsWithObservation

(***************************************************************************)
(* C34.  The server starts exactly the transport its mode selects and      *)
(* advertises the same one.  Once start() succeeded: in mode "jsonrpc" the *)
(* one server is the JSON-RPC application on jsonrpc_port; in mode "grpc"  *)
(* the gRPC server listens on grpc_port and the one HTTP server is a REST  *)
(* application on rest_port; in every other mode the one server is the     *)
(* REST application on rest_port and there is no gRPC server.  The url and *)
(* preferred_transport of the agent card, and the activeTransport that any *)
(* server of the agent reports (also to a client that asks), name that     *)
(* transport and its port.  stop() asks every server of the agent to exit  *)
(* and stops the gRPC server if it was started.                            *)
(***************************************************************************)
\* the transport the mode selects: its name in /v1/transports, its name and
\* url in the agent card, and its port
Selected ==
    IF agent.transport_mode = <<"g","r","p","c">>
    THEN [active |-> <<"g","r","p","c">>, preferred |-> <<"G","R","P","C">>, port |-> agent.grpc_port,
          url |-> <<"l","o","c","a","l","h","o","s","t",":">> \o IntToStr(agent.grpc_port)]
    ELSE IF agent.transport_mode = <<"j","s","o","n","r","p","c">>
    THEN [active |-> <<"j","s","o","n","r","p","c">>, preferred |-> <<"J","S","O","N","R","P","C">>, port |-> agent.jsonrpc_port,
          url |-> <<"h","t","t","p",":","/","/","l","o","c","a","l","h","o","s","t",":">> \o IntToStr(agent.jsonrpc_port)]
    ELSE [active |-> <<"r","e","s","t">>, preferred |-> <<"H","T","T","P","+","J","S","O","N">>, port |-> agent.rest_port,
          url |-> <<"h","t","t","p",":","/","/","l","o","c","a","l","h","o","s","t",":">> \o IntToStr(agent.rest_port)]

\* the one HTTP server of the agent is this application on this port
OnlyHttpServer(app, port) ==
    /\ Len(agent.servers) = 1
    /\ agent.servers[1].app = app
    /\ agent.servers[1].port = port

C34_TransportMatchesMode ==
    /\ [](agent.phase = "started" =>
            /\ agent.transport_mode = <<"j","s","o","n","r","p","c">>
                 => OnlyHttpServer("jsonrpc", agent.jsonrpc_port) /\ agent._grpc_server.state = "unset"
            /\ agent.transport_mode = <<"g","r","p","c">>
                 => /\ OnlyHttpServer("rest", agent.rest_port)
                    /\ agent._grpc_server = [port |-> agent.grpc_port, state |-> "started"]
            /\ agent.transport_mode \notin {<<"j","s","o","n","r","p","c">>, <<"g","r","p","c">>}
                 => OnlyHttpServer("rest", agent.rest_port) /\ agent._grpc_server.state = "unset"
            /\ agent.servers[1].serving /\ ~agent.servers[1].should_exit)
    /\ [](/\ agent.agent_card.url = Selected.url
          /\ agent.agent_card.preferred_transport = Selected.preferred
          /\ \A i \in 1..Len(agent.servers) : agent.servers[i].activeTransport = Selected.active
          /\ agent._grpc_server.state # "unset" => Selected.active = <<"g","r","p","c">>
          /\ (aloha_client.last.call = "probe_transports" /\ aloha_client.last.exc = "none")
               => aloha_client.last.val = Selected.active)
    /\ [](agent.phase = "stopped" =>
            /\ \A i \in 1..Len(agent.servers) : agent.servers[i].should_exit
            /\ agent._grpc_server.state # "started")
    /\ [][agent'.phase = "stopped" /\ agent.phase # "stopped"
           => /\ Len(agent'.servers) = Len(agent.servers)
              /\ agent._grpc_server.state = "started" => agent'._grpc_server.state = "stopped"]_vars

C34_Witness ==
    /\ agent.phase = "stopped"
    /\ agent.transport_mode = <<"g","r","p","c">>
    /\ agent._grpc_server = [port |-> agent.grpc_port, state |-> "stopped"]
    /\ OnlyHttpServer("rest", agent.rest_port)
    /\ agent.servers[1].should_exit
    /\ aloha_client.last = [call |-> "probe_transports", exc |-> "none", val |-> <<"g","r","p","c">>]

(***************************************************************************)
(* C35 (as stated; probe_transports goes by the httpx client, which exists *)
(* before initialize() has completed).  The client never talks to the      *)
(* agent before it is initialized and always releases what it opened:      *)
(* send_message and probe_transports fail with RuntimeError, without a     *)
(* request, unless initialize() has completed; run_client refuses every    *)
(* transport other than rest before initialize() or any request; and       *)
(* run_client calls close() on every path.                                 *)
(***************************************************************************)
\* run_client refused the transport: nothing was initialized or sent
RefusedBeforeUse ==
    (aloha_client.caller = "run_client" /\ aloha_client.transport_arg # <<"r","e","s","t">> /\ aloha_client.pc # "new")
    => /\ aloha_client.requests = << >>
       /\ aloha_client.httpx_client = "None"
       /\ ~aloha_client.initialized
       /\ aloha_client.failed

\* run_client is over only after one call of close()
ClosedOnEveryPath ==
    /\ (aloha_client.caller = "run_client" /\ aloha_client.pc = "done") => aloha_client.closes = 1
    /\ (aloha_client.caller = "run_client" /\ aloha_client.pc # "done") => aloha_client.closes = 0

C35_ClientInitializedAndClosed ==
    /\ (aloha_client.last.call \in {"send_message", "probe_transports"} /\ ~aloha_client.initialized)
       => aloha_client.last.exc = "RuntimeError"
    /\ ~aloha_client.initialized
       => \A i \in 1..Len(aloha_client.requests) : aloha_client.requests[i].kind = "card"
    /\ RefusedBeforeUse
    /\ ClosedOnEveryPath
====
